---------------------------- MODULE Spec2Model ----------------------------
(***************************************************************************)
(* Presentation-Builder: the schema-driven renderer (PPTXBuilder), the     *)
(* formatting functions of the design system and the QA validator that     *)
(* reads a built presentation back and checks it against schema + payload. *)
(*                                                                         *)
(* Python values are records tagged by "t":                                *)
(*   [t |-> "none"]               None (also what dict.get gives for an    *)
(*                                absent key)                              *)
(*   [t |-> "int",   n |-> i]     the int i                                *)
(*   [t |-> "float", n |-> i]     the float i/10 (one decimal is kept)     *)
(*   [t |-> "nan"]                float("nan")                             *)
(*   [t |-> "inf",   n |-> s]     s = 1: float("inf"), s = -1: -inf        *)
(*   [t |-> "str",   s |-> "x"]   a str                                    *)
(*   [t |-> "list",  l |-> <<>>]  a list of values                         *)
(*   [t |-> "dict",  d |-> f]     a dict (a table row), f a function       *)
(* A call that can raise returns [ok |-> TRUE, s |-> text] or              *)
(* [ok |-> FALSE, s |-> exception name].                                   *)
(***************************************************************************)
EXTENDS Integers, Sequences, FiniteSets, TLC

VARIABLES
    fmtValue,   \* the value handed to format_value
    fmtType,    \* the FormatType handed to format_value
    fmtOut,     \* what format_value returned (NoCall before the call)
    qaIssues,   \* QAResult.issues of a report that issues are appended to
    bschema,    \* the TemplateSchema the PPTXBuilder was made with (NoSchema before)
    bpayload,   \* the payload of the build call
    built,      \* what build(payload) did: NoCall, [ok, bytes] or the exception
    vbytes,     \* the pptx_bytes of the last validate call
    vschema,    \* the schema of the QAValidator of the last validate call
    vpayload,   \* the payload of the last validate call
    result,     \* what validate did: NoCall, [ok, issues] or the exception
    checked,    \* the <<slide index, slot name>> of the _check_slot calls it made
    colorOut,   \* what variance_color returned for fmtValue (NoCall before the call)
    rendered,   \* a render routine called on a slot: NoCall or [routine, slot, payload, out]
    firstCall,  \* the first validate call of a validator: NoCall or [bytes, payload,
                \* out, between, repeated]; between: a call with other arguments
                \* followed; repeated: after that, a call with the same arguments
    payloadReport,  \* what the last validate_payload call returned (NoCall before)
    generated,  \* the last generate command: NoCall or [skip_qa, force, before, qa,
                \* status, file]; before and file: the output file before and after
    mapper,     \* a DataMapper: its _payload and _warnings, and what its calls of
                \* map returned
    rebuilt     \* a build of a variation of the template with the payload of the
                \* first build: NoCall or [schema, out]

vars == <<fmtValue, fmtType, fmtOut, qaIssues, bschema, bpayload, built,
          vbytes, vschema, vpayload, result, checked,
                   colorOut, rendered, firstCall, payloadReport,
                   generated, mapper, rebuilt>>

NoCall == [ok |-> FALSE, s |-> "no call"]
NoSchema == [name |-> "no schema", slides |-> <<>>]

---------------------------------------------------------------------------
(* Python values *)

None == [t |-> "none"]
NaN == [t |-> "nan"]
PosInf == [t |-> "inf", n |-> 1]
NegInf == [t |-> "inf", n |-> -1]
PyInt(i) == [t |-> "int", n |-> i]
PyFloat(tenths) == [t |-> "float", n |-> tenths]
PyStr(s) == [t |-> "str", s |-> s]
PyList(l) == [t |-> "list", l |-> l]
PyDict(f) == [t |-> "dict", d |-> f]

Ok(s) == [ok |-> TRUE, s |-> s]
Raise(e) == [ok |-> FALSE, s |-> e]

IsFinite(v) == v.t \in {"int", "float"}
IsNumber(v) == v.t \in {"int", "float", "nan", "inf"}

\* The value of a finite number in tenths.
Tenths(v) == IF v.t = "int" THEN 10 * v.n ELSE v.n

Abs(i) == IF i < 0 THEN -i ELSE i

\* a / d rounded to the nearest integer, ties to even (a >= 0, d > 0): what
\* Python's float formatting does with a quotient that is exact in binary.
RoundDiv(a, d) ==
    LET q == a \div d
        r == a % d
    IN  IF 2 * r < d THEN q
        ELSE IF 2 * r > d THEN q + 1
        ELSE IF q % 2 = 0 THEN q ELSE q + 1

Pad3(m) ==
    IF m < 10 THEN "00" \o ToString(m)
    ELSE IF m < 100 THEN "0" \o ToString(m)
    ELSE ToString(m)

\* f"{n:,}" for n >= 0
RECURSIVE Grouped(_)
Grouped(n) ==
    IF n < 1000 THEN ToString(n)
    ELSE Grouped(n \div 1000) \o "," \o Pad3(n % 1000)

\* f"{x:.1f}" for x = t/10, t >= 0
Fixed1(t) == ToString(t \div 10) \o "." \o ToString(t % 10)

\* f"{value:.1f}" for a number
FormatF1(v) ==
    IF v.t = "inf" THEN (IF v.n < 0 THEN "-inf" ELSE "inf")
    ELSE IF v.t = "nan" THEN "nan"
    ELSE IF Tenths(v) < 0 THEN "-" \o Fixed1(-Tenths(v))
    ELSE Fixed1(Tenths(v))

EndsWith(s, suffix) ==
    /\ Len(s) >= Len(suffix)
    /\ SubSeq(s, Len(s) - Len(suffix) + 1, Len(s)) = suffix

\* needle in hay (Python's substring test on str)
InStr(needle, hay) ==
    \E i \in 1..(Len(hay) - Len(needle) + 1) :
        SubSeq(hay, i, i + Len(needle) - 1) = needle

\* A sequence written as a function constructor is kept as a constructor and
\* evaluated again at every use; Tuple makes it the tuple of its values.
Tuple(s) == s \o <<>>

\* "sep".join(parts)
RECURSIVE Join(_, _)
Join(sep, parts) ==
    IF parts = <<>> THEN ""
    ELSE IF Len(parts) = 1 THEN parts[1]
    ELSE parts[1] \o sep \o Join(sep, Tail(parts))

\* str(x) of a scalar or of a list of scalars
RECURSIVE str(_)
str(v) ==
    CASE v.t = "none" -> "None"
      [] v.t = "nan" -> "nan"
      [] v.t = "inf" -> (IF v.n < 0 THEN "-inf" ELSE "inf")
      [] v.t = "int" -> (IF v.n < 0 THEN "-" \o ToString(-v.n) ELSE ToString(v.n))
      [] v.t = "float" -> FormatF1(v)
      [] v.t = "str" -> v.s
      [] v.t = "list" ->
            "[" \o Join(", ", Tuple([i \in 1..Len(v.l) |->
                     IF v.l[i].t = "str" THEN "'" \o v.l[i].s \o "'"
                     ELSE str(v.l[i])])) \o "]"

---------------------------------------------------------------------------
(* schema/models.py: enums *)

FormatTypes ==
    {"currency", "percentage", "variance_percentage", "points_change",
     "number", "text", "integer"}

---------------------------------------------------------------------------
(* schema/design_system.py *)

\* the guard every formatter starts with
NoneOrNaN(value) == value.t = "none" \/ value.t = "nan"

\* format_currency with the k tier reaching up to one million
format_currency_million(value) ==
    IF NoneOrNaN(value) THEN Ok("N/A")
    ELSE IF ~IsNumber(value) THEN Raise("TypeError")
    ELSE LET sign == IF value.n < 0 THEN "-" ELSE ""
         IN  IF value.t = "inf" THEN Ok(sign \o "$infm")
             ELSE LET v == Abs(Tenths(value))
                  IN  IF v < 1000 * 10
                      THEN Ok(sign \o "$" \o Grouped(RoundDiv(v, 10)))
                      ELSE IF v < 1000000 * 10
                      THEN LET formatted == Fixed1(RoundDiv(v, 1000))
                           IN  Ok(sign \o "$"
                                   \o (IF EndsWith(formatted, ".0")
                                       THEN SubSeq(formatted, 1, Len(formatted) - 2)
                                       ELSE formatted)
                                   \o "k")
                      ELSE Ok(sign \o "$" \o Fixed1(RoundDiv(v, 1000000)) \o "m")

format_currency(value) ==
    IF NoneOrNaN(value) THEN Ok("N/A")
    ELSE IF ~IsNumber(value) THEN Raise("TypeError")     \* abs() of a list
    ELSE LET sign == IF value.n < 0 THEN "-" ELSE ""
         IN  IF value.t = "inf" THEN Ok(sign \o "$infm")
             ELSE LET v == Abs(Tenths(value))
                  IN  IF v < 1000 * 10
                      THEN Ok(sign \o "$" \o Grouped(RoundDiv(v, 10)))
                      ELSE IF v < 999950 * 10
                      THEN LET formatted == Fixed1(RoundDiv(v, 1000))
                           IN  Ok(sign \o "$"
                                   \o (IF EndsWith(formatted, ".0")
                                       THEN SubSeq(formatted, 1, Len(formatted) - 2)
                                       ELSE formatted)
                                   \o "k")
                      ELSE Ok(sign \o "$" \o Fixed1(RoundDiv(v, 1000000)) \o "m")

format_percentage(value) ==
    IF NoneOrNaN(value) THEN Ok("N/A")
    ELSE IF ~IsNumber(value) THEN Raise("TypeError")     \* list.__format__
    ELSE Ok(FormatF1(value) \o "%")

format_variance_percentage(value) ==
    IF NoneOrNaN(value) THEN Ok("N/A")
    ELSE IF ~IsNumber(value) THEN Raise("TypeError")     \* list > 0
    ELSE Ok((IF value.n > 0 THEN "+" ELSE "") \o FormatF1(value) \o "%")

format_points_change(value) ==
    IF NoneOrNaN(value) THEN Ok("N/A")
    ELSE IF ~IsNumber(value) THEN Raise("TypeError")
    ELSE Ok((IF value.n > 0 THEN "+" ELSE "") \o FormatF1(value) \o " ppts")

format_number(value) ==
    IF NoneOrNaN(value) THEN Ok("N/A")
    ELSE IF ~IsNumber(value) THEN Raise("TypeError")
    ELSE LET sign == IF value.n < 0 THEN "-" ELSE ""
         IN  IF value.t = "inf" THEN Ok(sign \o "infm")
             ELSE LET v == Abs(Tenths(value))
                  IN  IF v < 1000000 * 10
                      THEN Ok(sign \o Grouped(RoundDiv(v, 10)))
                      ELSE Ok(sign \o Fixed1(RoundDiv(v, 1000000)) \o "m")

\* int(value) truncates towards zero; int(inf) raises OverflowError
format_integer(value) ==
    IF NoneOrNaN(value) THEN Ok("N/A")
    ELSE IF value.t = "inf" THEN Raise("OverflowError")
    ELSE IF ~IsNumber(value) THEN Raise("TypeError")
    ELSE LET i == Abs(Tenths(value)) \div 10
         IN  Ok((IF Tenths(value) < 0 /\ i > 0 THEN "-" ELSE "") \o Grouped(i))

format_value(value, format_type) ==
    IF value.t = "str" THEN Ok(value.s)
    ELSE CASE format_type = "currency" -> format_currency(value)
           [] format_type = "percentage" -> format_percentage(value)
           [] format_type = "variance_percentage" -> format_variance_percentage(value)
           [] format_type = "points_change" -> format_points_change(value)
           [] format_type = "number" -> format_number(value)
           [] format_type = "integer" -> format_integer(value)
           [] format_type = "text" ->
                IF value.t # "none" THEN Ok(str(value)) ELSE Ok("N/A")
           [] OTHER -> Ok(str(value))

\* variance_color that takes zero for a gain
variance_color_zero_positive(value, positive, negative, neutral) ==
    IF NoneOrNaN(value) THEN Ok(neutral)
    ELSE IF ~IsNumber(value) THEN Raise("TypeError")
    ELSE IF value.n >= 0 THEN Ok(positive)
    ELSE Ok(negative)

variance_color(value, positive, negative, neutral) ==
    IF NoneOrNaN(value) THEN Ok(neutral)
    ELSE IF ~IsNumber(value) THEN Raise("TypeError")     \* str > 0, list > 0
    ELSE IF value.n > 0 THEN Ok(positive)
    ELSE IF value.n < 0 THEN Ok(negative)
    ELSE Ok(neutral)

---------------------------------------------------------------------------
(* qa/validator.py: Issue and QAResult *)

Issue(severity, slide_index, slide_name, slot_name, category, message) ==
    [severity |-> severity, slide_index |-> slide_index, slide_name |-> slide_name,
     slot_name |-> slot_name, category |-> category, message |-> message]

errors(issues) == SelectSeq(issues, LAMBDA i : i.severity = "error")
warnings(issues) == SelectSeq(issues, LAMBDA i : i.severity = "warning")

passed_len_issues(issues) == Len(issues) = 0
passed(issues) == Len(errors(issues)) = 0

error_count(issues) == Len(errors(issues))
warning_count(issues) == Len(warnings(issues))

---------------------------------------------------------------------------
(* Python helpers shared by the builder and the validator *)

\* bool(value)
Truthy(v) ==
    CASE v.t = "none" -> FALSE
      [] v.t \in {"int", "float"} -> v.n # 0
      [] v.t \in {"nan", "inf"} -> TRUE
      [] v.t = "str" -> v.s # ""
      [] v.t = "list" -> v.l # <<>>
      [] v.t = "dict" -> DOMAIN v.d # {}

\* payload.get(key), row.get(key)
dict_get(d, key) == IF key \in DOMAIN d THEN d[key] ELSE None

\* len(value) is defined for str, list and dict only
HasLen(v) == v.t \in {"str", "list", "dict"}
PyLen(v) ==
    CASE v.t = "str" -> Len(v.s)
      [] v.t = "list" -> Len(v.l)
      [] v.t = "dict" -> Cardinality(DOMAIN v.d)

\* the keys of a dict in a fixed order (iteration order of the dict)
RECURSIVE SetToSeq(_)
SetToSeq(S) ==
    IF S = {} THEN <<>>
    ELSE LET x == CHOOSE y \in S : TRUE IN <<x>> \o SetToSeq(S \ {x})

\* list(value): the items iterating over a str, list or dict yields
Items(v) ==
    CASE v.t = "str" -> Tuple([i \in 1..Len(v.s) |-> PyStr(SubSeq(v.s, i, i))])
      [] v.t = "list" -> v.l
      [] v.t = "dict" -> Tuple([i \in 1..Cardinality(DOMAIN v.d) |->
                             PyStr(SetToSeq(DOMAIN v.d)[i])])

\* the first result of a sequence of results that raised, else 0
FirstRaise(rs) ==
    IF \E i \in 1..Len(rs) : ~rs[i].ok
    THEN CHOOSE i \in 1..Len(rs) : ~rs[i].ok /\ \A j \in 1..(i - 1) : rs[j].ok
    ELSE 0

\* _is_missing (the builder and the validator define the same function)
_is_missing(value) == value.t = "none" \/ value.t = "nan"

UpperChar(c) ==
    CASE c = "a" -> "A" [] c = "b" -> "B" [] c = "c" -> "C"
      [] c = "d" -> "D" [] c = "e" -> "E" [] c = "f" -> "F"
      [] OTHER -> c

\* str.upper() on a hex colour
RECURSIVE upper(_)
upper(s) == IF s = "" THEN "" ELSE UpperChar(Head(s)) \o upper(Tail(s))

\* s.lstrip("#")
RECURSIVE lstrip_hash(_)
lstrip_hash(s) ==
    IF s # "" /\ Head(s) = "#" THEN lstrip_hash(Tail(s)) ELSE s

\* s.strip() (spaces)
RECURSIVE lstrip(_)
lstrip(s) == IF s # "" /\ Head(s) = " " THEN lstrip(Tail(s)) ELSE s
RECURSIVE rstrip(_)
rstrip(s) ==
    IF s # "" /\ SubSeq(s, Len(s), Len(s)) = " "
    THEN rstrip(SubSeq(s, 1, Len(s) - 1)) ELSE s
strip(s) == rstrip(lstrip(s))

\* str(_hex_to_rgb(hex)): an RGBColor prints as six upper-case hex digits
_hex_to_rgb(hex_color) == upper(lstrip_hash(hex_color))

\* pptx.util.Inches on a length given in thousandths of an inch: int(x * 914400),
\* computed as x * 9144 / 10 to stay within 32 bits
Inches(thousandths) == (thousandths * 9144) \div 10

---------------------------------------------------------------------------
(* schema/models.py: FormatRule, TableColumn, ChartSeries, DataSlot,        *)
(* SlideSchema, DesignSystem, TemplateSchema. None is "" for a str field,  *)
(* NoRule for a format rule.                                               *)

NoRule == [format_type |-> "none", positive_color |-> "", negative_color |-> "",
           neutral_color |-> ""]

FormatRule(format_type) ==
    [format_type |-> format_type, positive_color |-> "#00AA00",
     negative_color |-> "#CC0000", neutral_color |-> "#000000"]

TableColumn(header, data_key, format_rule) ==
    [header |-> header, data_key |-> data_key, format_rule |-> format_rule]

ChartSeries(name, data_key, color) ==
    [name |-> name, data_key |-> data_key, color |-> color]

DataSlot(name, slot_type, data_key) ==
    [name |-> name, slot_type |-> slot_type, data_key |-> data_key,
     left |-> 0, top |-> 0,
     font |-> "", format_rule |-> NoRule, label |-> "", variance_key |-> "",
     columns |-> <<>>, row_data_key |-> "",
     chart_type |-> "", series |-> <<>>, categories_key |-> ""]

SlideSchema(index, name, slide_type, slots) ==
    [index |-> index, name |-> name, slide_type |-> slide_type, slots |-> slots]

DesignSystem ==
    [dark_text |-> "#000000", white |-> "#FFFFFF", dark_grey |-> "#1C2B33",
     positive |-> "#00AA00", negative |-> "#CC0000", light_gray |-> "#D1D5DB",
     divider_bg |-> "#0065E0"]

TemplateSchema(name, width, height, slides) ==
    [name |-> name, width_inches |-> width, height_inches |-> height,
     design |-> DesignSystem, slides |-> slides]

\* TemplateSchema.from_dict: builds the dataclasses field by field and checks
\* nothing about indices, slot names or data keys
from_dict(d) == TemplateSchema(d.name, d.width_inches, d.height_inches, d.slides)

\* TemplateSchema.all_data_keys
all_data_keys(schema) ==
    UNION {UNION {
        {slot.data_key}
        \cup (IF slot.variance_key # "" THEN {slot.variance_key} ELSE {})
        \cup (IF slot.row_data_key # "" THEN {slot.row_data_key} ELSE {})
        \cup (IF slot.categories_key # "" THEN {slot.categories_key} ELSE {})
        \cup {slot.columns[c].data_key : c \in 1..Len(slot.columns)}
        \cup {slot.series[s].data_key : s \in 1..Len(slot.series)}
        : slot \in {slide.slots[j] : j \in 1..Len(slide.slots)}}
      : slide \in {schema.slides[i] : i \in 1..Len(schema.slides)}}

---------------------------------------------------------------------------
(* The presentation (python-pptx objects). A run is [text, color]; color is *)
(* the six-digit RGB string, "" when the run has no explicit colour.       *)

Run(text, color) == [text |-> text, color |-> color]

\* a text box: its paragraphs, each a sequence of runs
TextBox(paragraphs) == [kind |-> "textbox", paragraphs |-> paragraphs]

\* a table: rows of cells, each cell the runs of its one paragraph
TableShape(cells, ncols) == [kind |-> "table", cells |-> cells, ncols |-> ncols]

ChartShape(chart_type, categories, series, left, top) ==
    [kind |-> "chart", chart_type |-> chart_type, categories |-> categories,
     series |-> series, has_legend |-> TRUE, legend_position |-> "bottom",
     left |-> left, top |-> top]

OkShapes(shapes) == [ok |-> TRUE, shapes |-> shapes]

\* paragraph.text, text_frame.text
ParagraphText(runs) == Join("", Tuple([i \in 1..Len(runs) |-> runs[i].text]))
TextFrameText(shape) ==
    Join("\n", Tuple([i \in 1..Len(shape.paragraphs) |->
                   ParagraphText(shape.paragraphs[i])]))

\* cell.text = s: a run is made only for a non-empty text
CellRuns(text, color) == IF text = "" THEN <<>> ELSE <<Run(text, color)>>

---------------------------------------------------------------------------
(* generator/pptx_builder.py *)

_format_slot_value(value, format_rule) ==
    IF _is_missing(value) THEN Ok("N/A")
    ELSE IF format_rule = NoRule THEN Ok(str(value))
    ELSE format_value(value, format_rule.format_type)

\* the colour _apply_font leaves on a run
FontColor(font) == IF font = "" THEN "" ELSE _hex_to_rgb(font)

_render_text(slot, payload) ==
    LET value == dict_get(payload, slot.data_key)
        text == IF _is_missing(value) THEN ""
                ELSE IF value.t = "list"
                THEN Join("\n", Tuple([i \in 1..Len(value.l) |-> str(value.l[i])]))
                ELSE str(value)
    IN  OkShapes(<<TextBox(<<<<Run(text, FontColor(slot.font))>>>>)>>)

_render_placeholder(slot, payload) ==
    OkShapes(<<TextBox(<<<<Run("[" \o slot.slot_type \o ": " \o slot.name \o "]",
                               _hex_to_rgb(DesignSystem.light_gray))>>>>)>>)

_render_section_divider(slot, payload) ==
    LET value == dict_get(payload, slot.data_key)
        text == IF ~_is_missing(value) THEN str(value) ELSE slot.name
    IN  OkShapes(<<TextBox(<<<<Run(text, FontColor(slot.font))>>>>)>>)

\* the second half of _render_kpi: the text box made from the formatted value
\* and, with a variance, its text and colour
KpiBox(slot, formatted, var_value, pct_text, var_color, points_text) ==
    LET p_label == IF slot.label # ""
                   THEN <<Run(slot.label, _hex_to_rgb(DesignSystem.dark_grey))>>
                   ELSE <<>>
    IN  IF ~formatted.ok THEN formatted
        ELSE IF slot.variance_key = "" \/ _is_missing(var_value)
        THEN OkShapes(<<TextBox(<<p_label, <<Run(formatted.s, FontColor(slot.font))>>>>)>>)
        ELSE IF ~pct_text.ok THEN pct_text
        ELSE IF ~var_color.ok THEN var_color
        ELSE IF slot.format_rule # NoRule /\ slot.format_rule.format_type = "points_change"
        THEN IF ~points_text.ok THEN points_text
             ELSE OkShapes(<<TextBox(<<p_label,
                      <<Run(formatted.s, FontColor(slot.font))>>,
                      <<Run(points_text.s, _hex_to_rgb(var_color.s))>>>>)>>)
        ELSE OkShapes(<<TextBox(<<p_label,
                 <<Run(formatted.s, FontColor(slot.font))>>,
                 <<Run(pct_text.s, _hex_to_rgb(var_color.s))>>>>)>>)

\* payload.get(slot.variance_key) if slot.variance_key else None
VarianceValue(slot, payload) ==
    IF slot.variance_key # "" THEN dict_get(payload, slot.variance_key) ELSE None

_render_kpi(slot, payload) ==
    KpiBox(slot,
           _format_slot_value(dict_get(payload, slot.data_key), slot.format_rule),
           VarianceValue(slot, payload),
           format_value(VarianceValue(slot, payload), "variance_percentage"),
           variance_color(VarianceValue(slot, payload), "#00AA00", "#CC0000", "#000000"),
           format_value(VarianceValue(slot, payload), "points_change"))

IsVarianceFormat(format_rule) ==
    /\ format_rule # NoRule
    /\ format_rule.format_type \in {"variance_percentage", "points_change"}

\* the runs of one data cell given its formatted text and its colour override
CellOf(col_def, raw_val, formatted, color_override) ==
    IF ~formatted.ok THEN formatted
    ELSE IF IsVarianceFormat(col_def.format_rule) /\ ~_is_missing(raw_val)
    THEN IF ~color_override.ok THEN color_override
         ELSE [ok |-> TRUE,
               runs |-> CellRuns(formatted.s,
                   IF color_override.s # "" THEN _hex_to_rgb(color_override.s)
                   ELSE _hex_to_rgb(DesignSystem.dark_text))]
    ELSE [ok |-> TRUE,
          runs |-> CellRuns(formatted.s, _hex_to_rgb(DesignSystem.dark_text))]

\* one data cell of _render_table: its runs, or the exception
TableCell(row_data, col_def) ==
    IF row_data.t # "dict" THEN Raise("AttributeError")       \* row_data.get
    ELSE CellOf(col_def, dict_get(row_data.d, col_def.data_key),
                _format_slot_value(dict_get(row_data.d, col_def.data_key),
                                   col_def.format_rule),
                variance_color(dict_get(row_data.d, col_def.data_key),
                               col_def.format_rule.positive_color,
                               col_def.format_rule.negative_color,
                               col_def.format_rule.neutral_color))

\* TableOf without the header row
TableOfNoHeader(slot, cells) ==
    LET num_cols == Len(slot.columns)
        bad == FirstRaise(cells)
    IN  IF bad # 0 THEN cells[bad]
        ELSE OkShapes(<<TableShape(
                 Tuple([r \in 1..(Len(cells) \div num_cols) |->
                     Tuple([c \in 1..num_cols |->
                         cells[(r - 1) * num_cols + c].runs])]),
                 num_cols)>>)

\* the table shape made of a header row and the data cells (in row order), or
\* the exception of the first cell that raised
TableOf(slot, cells) ==
    LET num_cols == Len(slot.columns)
        header == Tuple([c \in 1..num_cols |->
                      CellRuns(slot.columns[c].header, _hex_to_rgb(DesignSystem.white))])
        bad == FirstRaise(cells)
    IN  IF bad # 0 THEN cells[bad]
        ELSE OkShapes(<<TableShape(
                 <<header>> \o Tuple([r \in 1..(Len(cells) \div num_cols) |->
                     Tuple([c \in 1..num_cols |->
                         cells[(r - 1) * num_cols + c].runs])]),
                 num_cols)>>)

\* _render_table without the fallback to a text box: a table of the header
\* row alone when there are no rows
_render_table_always(slot, payload) ==
    LET rows_data == IF slot.row_data_key # ""
                     THEN dict_get(payload, slot.row_data_key) ELSE None
        num_cols == Len(slot.columns)
        n == IF HasLen(rows_data) THEN PyLen(rows_data) ELSE 0
    IN  TableOf(slot, Tuple([k \in 1..(n * num_cols) |->
            TableCell(Items(rows_data)[((k - 1) \div num_cols) + 1],
                      slot.columns[((k - 1) % num_cols) + 1])]))

_render_table(slot, payload) ==
    LET rows_data == IF slot.row_data_key # ""
                     THEN dict_get(payload, slot.row_data_key) ELSE None
        num_cols == Len(slot.columns)
    IN  IF ~Truthy(rows_data) \/ slot.columns = <<>>
        THEN _render_text(slot, payload)
        ELSE IF ~HasLen(rows_data) THEN Raise("TypeError")    \* len(rows_data)
        ELSE TableOf(slot, Tuple([k \in 1..(PyLen(rows_data) * num_cols) |->
                 TableCell(Items(rows_data)[((k - 1) \div num_cols) + 1],
                           slot.columns[((k - 1) % num_cols) + 1])]))

IsDoughnutType(chart_type) == chart_type \in {"doughnut", "doughnut_exploded"}

\* one series of the standard (column, line) branch of _render_chart:
\* [ok, skip, values] or the exception
ChartSeriesValues(series_def, categories, payload) ==
    LET series_values == dict_get(payload, series_def.data_key)
    IN  IF _is_missing(series_values) \/ ~Truthy(series_values)
        THEN IF Truthy(categories)
             THEN IF ~HasLen(categories) THEN Raise("TypeError")  \* len(categories)
                  ELSE [ok |-> TRUE, skip |-> FALSE,
                        values |-> Tuple([i \in 1..PyLen(categories) |-> PyInt(0)])]
             ELSE [ok |-> TRUE, skip |-> TRUE, values |-> <<>>]
        ELSE IF ~HasLen(series_values) THEN Raise("TypeError")    \* tuple(scalar)
        ELSE [ok |-> TRUE, skip |-> FALSE, values |-> Items(series_values)]

\* the chart of the standard branch, made of the series that were not skipped
CategoryChart(slot, categories, has_categories, rs) ==
    LET bad == FirstRaise(rs)
        kept == SelectSeq(Tuple([i \in 1..Len(rs) |-> i]), LAMBDA i : ~rs[i].skip)
    IN  IF bad # 0 THEN rs[bad]
        ELSE OkShapes(<<ChartShape(slot.chart_type,
                 IF has_categories
                 THEN Tuple([i \in 1..PyLen(categories) |-> str(Items(categories)[i])])
                 ELSE <<>>,
                 Tuple([k \in 1..Len(kept) |->
                     [name |-> slot.series[kept[k]].name,
                      values |-> rs[kept[k]].values]]),
                 Inches(slot.left), Inches(slot.top))>>)

_render_chart(slot, payload) ==
    IF slot.chart_type = "" \/ slot.series = <<>>
    THEN _render_placeholder(slot, payload)
    ELSE
    LET categories == IF slot.categories_key # ""
                      THEN dict_get(payload, slot.categories_key) ELSE None
        has_categories == Truthy(categories) /\ ~_is_missing(categories)
        n == Len(slot.series)
    IN  IF has_categories /\ ~HasLen(categories)
        THEN Raise("TypeError")                     \* for c in categories
        ELSE IF ~has_categories /\ IsDoughnutType(slot.chart_type)
        THEN OkShapes(<<ChartShape(slot.chart_type,
                 Tuple([i \in 1..n |-> slot.series[i].name]),
                 <<[name |-> "Data",
                    values |-> Tuple([i \in 1..n |->
                        LET val == dict_get(payload, slot.series[i].data_key)
                        IN  IF ~_is_missing(val) THEN val ELSE PyInt(0)])]>>,
                 Inches(slot.left), Inches(slot.top))>>)
        ELSE CategoryChart(slot, categories, has_categories,
                 Tuple([i \in 1..n |->
                     ChartSeriesValues(slot.series[i], categories, payload)]))

\* the dispatch table of _render_slot
_render_slot(slot, payload) ==
    CASE slot.slot_type = "kpi_value" -> _render_kpi(slot, payload)
      [] slot.slot_type = "table" -> _render_table(slot, payload)
      [] slot.slot_type = "chart" -> _render_chart(slot, payload)
      [] slot.slot_type \in {"text", "static"} -> _render_text(slot, payload)
      [] slot.slot_type = "section_divider" -> _render_section_divider(slot, payload)
      [] OTHER -> _render_placeholder(slot, payload)

\* _apply_divider_background: the solid fill colour of the slide background
_apply_divider_background(design) == _hex_to_rgb(design.divider_bg)

RECURSIVE Concat(_)
Concat(seqs) == IF seqs = <<>> THEN <<>> ELSE Head(seqs) \o Concat(Tail(seqs))

\* the slide made of the shapes the slots rendered, or the exception of the
\* first slot whose renderer raised
SlideOf(design, slide_schema, rs) ==
    IF FirstRaise(rs) # 0 THEN rs[FirstRaise(rs)]
    ELSE [ok |-> TRUE,
          slide |-> [background |->
                         IF slide_schema.slide_type = "divider"
                         THEN _apply_divider_background(design) ELSE "",
                     shapes |-> Concat(Tuple([j \in 1..Len(rs) |-> rs[j].shapes]))]]

_build_slide(design, slide_schema, payload) ==
    SlideOf(design, slide_schema,
            Tuple([j \in 1..Len(slide_schema.slots) |->
                _render_slot(slide_schema.slots[j], payload)]))

---------------------------------------------------------------------------
(* generator/charts.py: the chart routines beside the builder's own         *)
(* _render_chart. Chart data is [ok, none] for None, or [ok, none,          *)
(* categories, series]; add_chart returns [ok, added, shapes].              *)

\* None, NaN, an infinity and everything that is no number become 0.0
_safe_value(value) == IF IsFinite(value) THEN PyFloat(Tenths(value)) ELSE PyFloat(0)

_is_doughnut(chart_type) == chart_type \in {"doughnut", "doughnut_exploded"}

NoChartData == [ok |-> TRUE, none |-> TRUE]
ChartData(categories, series) ==
    [ok |-> TRUE, none |-> FALSE, categories |-> categories, series |-> series]

\* values padded with 0.0 or cut to the length m, each made a safe value
PaddedValues(values, m) ==
    Tuple([i \in 1..m |-> IF i <= Len(values) THEN _safe_value(values[i])
                          ELSE PyFloat(0)])

\* the loop body of _build_category_chart_data: the values of one series
CategorySeries(series_def, categories, payload) ==
    LET values == dict_get(payload, series_def.data_key)
    IN  IF values.t = "none"
        THEN [ok |-> TRUE, values |-> PaddedValues(<<>>, PyLen(categories))]
        ELSE IF ~HasLen(values) THEN Raise("TypeError")          \* list(values)
        ELSE [ok |-> TRUE,
              values |-> PaddedValues(Items(values), PyLen(categories))]

\* the chart data made of the series, or the exception of the first that raised
CategoryData(slot, categories, rs) ==
    IF FirstRaise(rs) # 0 THEN rs[FirstRaise(rs)]
    ELSE ChartData(
             Tuple([i \in 1..PyLen(categories) |-> str(Items(categories)[i])]),
             Tuple([k \in 1..Len(rs) |->
                 [name |-> slot.series[k].name, values |-> rs[k].values]]))

_build_category_chart_data(slot, payload) ==
    IF slot.categories_key = "" THEN NoChartData
    ELSE IF ~Truthy(dict_get(payload, slot.categories_key)) THEN NoChartData
    ELSE IF slot.series = <<>> THEN NoChartData
    ELSE IF ~HasLen(dict_get(payload, slot.categories_key))
    THEN Raise("TypeError")                  \* chart_data.categories = 5
    ELSE CategoryData(slot, dict_get(payload, slot.categories_key),
             Tuple([k \in 1..Len(slot.series) |->
                 CategorySeries(slot.series[k],
                                dict_get(payload, slot.categories_key), payload)]))

\* a doughnut builder that gives no data as soon as one value is 0.0
DoughnutDataAnyZero(slot, values) ==
    IF \E i \in 1..Len(values) : values[i] = PyFloat(0) THEN NoChartData
    ELSE ChartData(Tuple([i \in 1..Len(slot.series) |-> slot.series[i].name]),
                   <<[name |-> "Data", values |-> values]>>)

\* the single series "Data" of a doughnut, None when every value is 0.0
DoughnutData(slot, values) ==
    IF \A i \in 1..Len(values) : values[i] = PyFloat(0) THEN NoChartData
    ELSE ChartData(Tuple([i \in 1..Len(slot.series) |-> slot.series[i].name]),
                   <<[name |-> "Data", values |-> values]>>)

_build_doughnut_chart_data(slot, payload) ==
    IF slot.series = <<>> THEN NoChartData
    ELSE DoughnutData(slot,
             Tuple([i \in 1..Len(slot.series) |->
                 _safe_value(dict_get(payload, slot.series[i].data_key))]))

\* _apply_chart_style: the legend of the chart
_apply_chart_style(slot) ==
    IF _is_doughnut(slot.chart_type)
    THEN [has_legend |-> FALSE, legend_position |-> ""]
    ELSE IF Len(slot.series) > 1
    THEN [has_legend |-> TRUE, legend_position |-> "bottom"]
    ELSE [has_legend |-> FALSE, legend_position |-> ""]

\* the second half of add_chart: no shape without chart data, else the chart
AddedChart(slot, chart_data) ==
    IF ~chart_data.ok THEN chart_data
    ELSE IF chart_data.none THEN [ok |-> TRUE, added |-> FALSE, shapes |-> <<>>]
    ELSE [ok |-> TRUE, added |-> TRUE,
          shapes |-> <<[ChartShape(slot.chart_type, chart_data.categories,
                                   chart_data.series,
                                   Inches(slot.left), Inches(slot.top))
                        EXCEPT !.has_legend = _apply_chart_style(slot).has_legend,
                               !.legend_position =
                                   _apply_chart_style(slot).legend_position]>>]

add_chart(slot, payload) ==
    IF slot.slot_type # "chart" THEN Raise("ValueError")
    ELSE IF slot.chart_type = "" THEN Raise("ValueError")
    ELSE AddedChart(slot,
             IF _is_doughnut(slot.chart_type)
             THEN _build_doughnut_chart_data(slot, payload)
             ELSE _build_category_chart_data(slot, payload))

\* prs.save(buf): the bytes of a presentation; Presentation(bytes) reads them
\* back, and raises on bytes that are no package
save(prs) == [kind |-> "pptx", prs |-> prs]
Garbage == [kind |-> "garbage"]
Presentation(pptx_bytes) ==
    IF pptx_bytes.kind = "pptx" THEN [ok |-> TRUE, prs |-> pptx_bytes.prs]
    ELSE Raise("BadZipFile")

---------------------------------------------------------------------------
(* qa/validator.py: helpers and presentation-level checks. A check returns *)
(* [ok |-> TRUE, issues |-> the issues it appended] or the exception.      *)

OkIssues(issues) == [ok |-> TRUE, issues |-> issues]

\* the issues of a sequence of checks run in order, or the first exception
Collect(rs) ==
    LET bad == FirstRaise(rs)
    IN  IF bad # 0 THEN rs[bad]
        ELSE OkIssues(Concat(Tuple([i \in 1..Len(rs) |-> rs[i].issues])))

TextShapes(slide) == SelectSeq(slide.shapes, LAMBDA sh : sh.kind = "textbox")
_table_shapes(slide) == SelectSeq(slide.shapes, LAMBDA sh : sh.kind = "table")
_chart_shapes(slide) == SelectSeq(slide.shapes, LAMBDA sh : sh.kind = "chart")

_all_text_on_slide(slide) ==
    Join(" ", Tuple([i \in 1..Len(TextShapes(slide)) |-> TextFrameText(TextShapes(slide)[i])]))

\* the characters the data keys are written in, in code point order
Alphabet == ".0123456789_abcdefghijklmnopqrstuvwxyz"
Ord(c) == CHOOSE i \in 1..Len(Alphabet) : SubSeq(Alphabet, i, i) = c

\* a < b on str
RECURSIVE StrLess(_, _)
StrLess(a, b) ==
    IF b = "" THEN FALSE
    ELSE IF a = "" THEN TRUE
    ELSE IF Head(a) = Head(b) THEN StrLess(Tail(a), Tail(b))
    ELSE Ord(Head(a)) < Ord(Head(b))

\* sorted(set of str)
RECURSIVE sorted(_)
sorted(S) ==
    IF S = {} THEN <<>>
    ELSE LET m == CHOOSE x \in S : \A y \in S \ {x} : StrLess(x, y)
         IN  <<m>> \o sorted(S \ {m})

SlotsOf(slide_schema) == {slide_schema.slots[j] : j \in 1..Len(slide_schema.slots)}
SlidesOf(schema) == {schema.slides[i] : i \in 1..Len(schema.slides)}

\* the keys of one slot that are looked up in the payload itself
SlotKeys(slot) ==
    {slot.data_key}
    \cup (IF slot.variance_key # "" THEN {slot.variance_key} ELSE {})
    \cup (IF slot.row_data_key # "" THEN {slot.row_data_key} ELSE {})
    \cup (IF slot.categories_key # "" THEN {slot.categories_key} ELSE {})
    \cup {slot.series[s].data_key : s \in 1..Len(slot.series)}

top_level_keys_no_variance(schema) ==
    UNION {UNION {SlotKeys(slot) \ {slot.variance_key} : slot \in SlotsOf(slide)}
           : slide \in SlidesOf(schema)}

\* top_level_keys of _check_payload_coverage: column data keys are left out
top_level_keys(schema) ==
    UNION {UNION {SlotKeys(slot) : slot \in SlotsOf(slide)}
           : slide \in SlidesOf(schema)}

_find_slide_for_key(schema, data_key) ==
    IF \E i \in 1..Len(schema.slides) :
           \E slot \in SlotsOf(schema.slides[i]) : data_key \in SlotKeys(slot)
    THEN schema.slides[
             CHOOSE i \in 1..Len(schema.slides) :
                 /\ \E slot \in SlotsOf(schema.slides[i]) : data_key \in SlotKeys(slot)
                 /\ \A h \in 1..(i - 1) :
                        \A slot \in SlotsOf(schema.slides[h]) :
                            data_key \notin SlotKeys(slot)].name
    ELSE ""

_check_slide_count(schema, prs) ==
    IF Len(prs.slides) # Len(schema.slides)
    THEN <<Issue("error", -1, "", "", "slide_count",
                 "Expected " \o ToString(Len(schema.slides)) \o " slides, got "
                     \o ToString(Len(prs.slides)))>>
    ELSE <<>>

_check_dimensions(schema, prs) ==
    (IF prs.slide_width # Inches(schema.width_inches)
     THEN <<Issue("error", -1, "", "", "dimensions", "Slide width")>> ELSE <<>>)
    \o (IF prs.slide_height # Inches(schema.height_inches)
        THEN <<Issue("error", -1, "", "", "dimensions", "Slide height")>> ELSE <<>>)

_check_payload_coverage(schema, payload) ==
    LET missing == sorted(top_level_keys(schema) \ DOMAIN payload)
    IN  Tuple([i \in 1..Len(missing) |->
            Issue("warning", -1, _find_slide_for_key(schema, missing[i]), "",
                  "payload_missing", "Data key '" \o missing[i] \o "' not in payload")])

---------------------------------------------------------------------------
(* qa/validator.py: per-slide and per-slot checks *)

SlotIssue(severity, slide_schema, slot, category, message) ==
    Issue(severity, slide_schema.index, slide_schema.name, slot.name, category, message)

\* fill.fore_color.rgb raises on a background without a solid fill, and the
\* except branch reports that
_check_divider_background(design, slide, slide_schema) ==
    IF slide.background = ""
    THEN <<Issue("error", slide_schema.index, slide_schema.name, "",
                 "divider_background", "Divider slide missing background fill")>>
    ELSE IF upper(slide.background) # upper(lstrip_hash(design.divider_bg))
    THEN <<Issue("error", slide_schema.index, slide_schema.name, "",
                 "divider_background", "Divider background color " \o slide.background)>>
    ELSE <<>>

\* all runs of the text boxes of a slide, in shape, paragraph, run order
SlideRuns(slide) ==
    Concat(Tuple([i \in 1..Len(TextShapes(slide)) |-> Concat(TextShapes(slide)[i].paragraphs)]))

\* the colour comparison made on one run: run.font.color.rgb raises on a run
\* that was given no colour
RunColorCheck(run, expected_hex, issue) ==
    IF run.color = "" THEN Raise("AttributeError")
    ELSE OkIssues(IF upper(run.color) # expected_hex THEN <<issue>> ELSE <<>>)

\* the loop of _check_variance_color over the runs that hold the variance text
VarianceColorIssues(slide, slot, slide_schema, expected_color, var_text) ==
    IF ~expected_color.ok THEN expected_color
    ELSE IF ~var_text.ok THEN var_text
    ELSE LET expected_hex == upper(lstrip_hash(expected_color.s))
             hits == SelectSeq(SlideRuns(slide), LAMBDA run : InStr(var_text.s, run.text))
         IN  IF hits = <<>>
             THEN OkIssues(<<SlotIssue("warning", slide_schema, slot,
                                       "variance_text_missing",
                                       "Variance text '" \o var_text.s
                                           \o "' not found on slide")>>)
             ELSE Collect(Tuple([i \in 1..Len(hits) |->
                      RunColorCheck(hits[i], expected_hex,
                          SlotIssue("error", slide_schema, slot, "variance_color",
                                    "Variance '" \o var_text.s \o "' color "
                                        \o upper(hits[i].color) \o " != expected "
                                        \o expected_hex))]))

_check_variance_color(slide, slot, slide_schema, var_value) ==
    VarianceColorIssues(slide, slot, slide_schema,
        variance_color(var_value, "#00AA00", "#CC0000", "#000000"),
        IF slot.format_rule # NoRule /\ slot.format_rule.format_type = "points_change"
        THEN format_value(var_value, "points_change")
        ELSE format_value(var_value, "variance_percentage"))

\* the issues of _check_kpi_slot for a value that is not missing
KpiIssues(slot, slide_schema, all_text, formatted, variance) ==
    IF ~formatted.ok THEN formatted
    ELSE IF ~variance.ok THEN variance
    ELSE OkIssues(
             (IF slot.format_rule # NoRule /\ ~InStr(formatted.s, all_text)
              THEN <<SlotIssue("error", slide_schema, slot, "kpi_value_missing",
                               "Formatted KPI value '" \o formatted.s \o "' for '"
                                   \o slot.data_key \o "' not found on slide")>>
              ELSE <<>>)
             \o (IF slot.label # "" /\ ~InStr(slot.label, all_text)
                 THEN <<SlotIssue("warning", slide_schema, slot, "kpi_label_missing",
                                  "KPI label '" \o slot.label \o "' not found on slide")>>
                 ELSE <<>>)
             \o variance.issues)

\* a check of a missing KPI value that reports an error, whatever the slide shows
KpiMissingError(slot, slide_schema, all_text) ==
    OkIssues(<<SlotIssue("error", slide_schema, slot, "kpi_value_missing",
                         "KPI '" \o slot.data_key \o "' is missing")>>)

\* the issues of _check_kpi_slot for a missing value: "N/A" should appear
KpiMissingIssues(slot, slide_schema, all_text) ==
    OkIssues(IF ~InStr("N/A", all_text)
             THEN <<SlotIssue("warning", slide_schema, slot, "kpi_missing_na",
                              "KPI '" \o slot.data_key
                                  \o "' is missing but N/A not found on slide")>>
             ELSE <<>>)

_check_kpi_slot(slide, slot, slide_schema, payload) ==
    IF _is_missing(dict_get(payload, slot.data_key))
    THEN KpiMissingIssues(slot, slide_schema, _all_text_on_slide(slide))
    ELSE KpiIssues(slot, slide_schema, _all_text_on_slide(slide),
             IF slot.format_rule # NoRule
             THEN format_value(dict_get(payload, slot.data_key),
                               slot.format_rule.format_type)
             ELSE Ok(""),
             IF slot.variance_key # ""
                /\ ~_is_missing(dict_get(payload, slot.variance_key))
             THEN _check_variance_color(slide, slot, slide_schema,
                                        dict_get(payload, slot.variance_key))
             ELSE OkIssues(<<>>))

_check_text_slot(slide, slot, slide_schema, payload) ==
    LET value == dict_get(payload, slot.data_key)
        all_text == _all_text_on_slide(slide)
    IN  IF _is_missing(value) THEN OkIssues(<<>>)
        ELSE IF value.t = "list"
        THEN OkIssues(Concat(Tuple([i \in 1..Len(value.l) |->
                 IF ~InStr(str(value.l[i]), all_text)
                 THEN <<SlotIssue("warning", slide_schema, slot, "text_content",
                                  str(value.l[i]))>>
                 ELSE <<>>])))
        ELSE IF value.t = "str" /\ value.s # "" /\ ~InStr(value.s, all_text)
        THEN OkIssues(<<SlotIssue("warning", slide_schema, slot, "text_content", value.s)>>)
        ELSE OkIssues(<<>>)

Min(a, b) == IF a < b THEN a ELSE b

\* the table shape a table slot is checked against: the first one with the
\* slot's column count, else the first table of the slide
MatchTable(tables, slot) ==
    IF \E i \in 1..Len(tables) : tables[i].ncols = Len(slot.columns)
    THEN tables[CHOOSE i \in 1..Len(tables) :
                    /\ tables[i].ncols = Len(slot.columns)
                    /\ \A h \in 1..(i - 1) : tables[h].ncols # Len(slot.columns)]
    ELSE tables[1]

\* the comparison of one data cell with the text expected in it
CellTextIssues(slot, slide_schema, cell_text, expected_text) ==
    IF ~expected_text.ok THEN expected_text
    ELSE OkIssues(IF cell_text # expected_text.s
                  THEN <<SlotIssue("error", slide_schema, slot, "table_cell_format",
                                   "'" \o cell_text \o "' != expected '"
                                       \o expected_text.s \o "'")>>
                  ELSE <<>>)

\* the check of one data cell (row_idx, col_idx are the table's, from 1)
CellFormatCheck(table, slot, slide_schema, row_data, row_idx, col_idx) ==
    LET col_def == slot.columns[col_idx]
    IN  IF row_data.t # "dict" THEN Raise("AttributeError")       \* row_data.get
        ELSE IF col_def.format_rule = NoRule
                \/ _is_missing(dict_get(row_data.d, col_def.data_key))
        THEN OkIssues(<<>>)
        ELSE CellTextIssues(slot, slide_schema,
                 strip(ParagraphText(table.cells[row_idx][col_idx])),
                 format_value(dict_get(row_data.d, col_def.data_key),
                              col_def.format_rule.format_type))

\* the colour check of one cell of a variance column
CellColorCheck(table, slot, slide_schema, row_data, row_idx, col_idx) ==
    LET col_def == slot.columns[col_idx]
    IN  IF row_data.t # "dict" THEN Raise("AttributeError")
        ELSE LET raw_val == dict_get(row_data.d, col_def.data_key)
                 expected == variance_color(raw_val, col_def.format_rule.positive_color,
                                            col_def.format_rule.negative_color,
                                            col_def.format_rule.neutral_color)
                 runs == table.cells[row_idx][col_idx]
             IN  IF _is_missing(raw_val) THEN OkIssues(<<>>)
                 ELSE IF ~expected.ok THEN expected
                 ELSE Collect(Tuple([k \in 1..Len(runs) |->
                          RunColorCheck(runs[k], upper(lstrip_hash(expected.s)),
                              SlotIssue("error", slide_schema, slot,
                                        "table_variance_color",
                                        upper(runs[k].color) \o " != expected "
                                            \o upper(lstrip_hash(expected.s))))]))

_check_table_variance_colors(table, slot, slide_schema, rows_data) ==
    LET rows == Items(rows_data)
        nrows == Min(Len(rows), Len(table.cells) - 1)
        cols == SelectSeq(Tuple([c \in 1..Len(slot.columns) |-> c]),
                          LAMBDA c : IsVarianceFormat(slot.columns[c].format_rule))
    IN  Collect(Tuple([k \in 1..(Len(cols) * nrows) |->
            LET c == cols[((k - 1) \div nrows) + 1]
                r == ((k - 1) % nrows) + 1
            IN  CellColorCheck(table, slot, slide_schema, rows[r], r + 1, c)]))

\* the issues of a table whose column count matches: row count, headers,
\* cells, colours
TableIssues(row_count, headers, cells, colors) ==
    IF ~cells.ok THEN cells
    ELSE IF ~colors.ok THEN colors
    ELSE OkIssues(row_count \o headers \o cells.issues \o colors.issues)

\* the checks of _check_table_slot on the matched table
TableChecks(table, slot, slide_schema, rows_data) ==
    LET num_cols == Len(slot.columns)
        expected_rows == PyLen(rows_data) + 1
        actual_rows == Len(table.cells)
        row_count ==
            IF actual_rows # expected_rows
            THEN <<SlotIssue("error", slide_schema, slot, "table_row_count",
                             "Table has " \o ToString(actual_rows)
                                 \o " rows, expected " \o ToString(expected_rows))>>
            ELSE <<>>
        nrows == Min(PyLen(rows_data), actual_rows - 1)
    IN  IF table.ncols # num_cols
        THEN OkIssues(row_count
                 \o <<SlotIssue("error", slide_schema, slot, "table_column_count",
                                "Table has " \o ToString(table.ncols) \o " columns")>>)
        ELSE TableIssues(row_count,
                 Concat(Tuple([c \in 1..num_cols |->
                     IF strip(ParagraphText(table.cells[1][c])) # slot.columns[c].header
                     THEN <<SlotIssue("error", slide_schema, slot, "table_header",
                                      slot.columns[c].header)>>
                     ELSE <<>>])),
                 Collect(Tuple([k \in 1..(nrows * num_cols) |->
                     CellFormatCheck(table, slot, slide_schema,
                                     Items(rows_data)[((k - 1) \div num_cols) + 1],
                                     ((k - 1) \div num_cols) + 2,
                                     ((k - 1) % num_cols) + 1)])),
                 _check_table_variance_colors(table, slot, slide_schema, rows_data))

_check_table_slot(slide, slot, slide_schema, payload) ==
    LET rows_data == IF slot.row_data_key # ""
                     THEN dict_get(payload, slot.row_data_key) ELSE None
    IN  IF ~Truthy(rows_data) \/ slot.columns = <<>> THEN OkIssues(<<>>)
        ELSE IF _table_shapes(slide) = <<>>
        THEN OkIssues(<<SlotIssue("error", slide_schema, slot, "table_missing",
                                  "Table slot has data but no table shape on slide")>>)
        ELSE IF ~HasLen(rows_data) THEN Raise("TypeError")        \* len(rows_data)
        ELSE TableChecks(MatchTable(_table_shapes(slide), slot), slot, slide_schema,
                         rows_data)

ChartTypes == {"column_clustered", "doughnut", "doughnut_exploded", "line"}

ChartDist(cs, slot) == Abs(cs.left - Inches(slot.left)) + Abs(cs.top - Inches(slot.top))

\* the chart shape a chart slot is checked against: the first of the expected
\* type, else the nearest one to the slot's position (the first of the nearest)
MatchChart(charts, slot) ==
    IF slot.chart_type \in ChartTypes
       /\ \E i \in 1..Len(charts) : charts[i].chart_type = slot.chart_type
    THEN charts[CHOOSE i \in 1..Len(charts) :
                    /\ charts[i].chart_type = slot.chart_type
                    /\ \A h \in 1..(i - 1) : charts[h].chart_type # slot.chart_type]
    ELSE charts[CHOOSE i \in 1..Len(charts) :
                    /\ \A h \in 1..Len(charts) :
                           ChartDist(charts[i], slot) <= ChartDist(charts[h], slot)
                    /\ \A h \in 1..(i - 1) :
                           ChartDist(charts[h], slot) > ChartDist(charts[i], slot)]

_check_chart_slot(slide, slot, slide_schema, payload) ==
    LET charts == _chart_shapes(slide)
        n == Len(slot.series)
        data(i) == dict_get(payload, slot.series[i].data_key)
    IN  IF slot.chart_type = "" \/ slot.series = <<>> THEN OkIssues(<<>>)
        ELSE IF charts = <<>>
        THEN OkIssues(IF \E i \in 1..n : data(i) # None
                      THEN <<SlotIssue("error", slide_schema, slot, "chart_missing",
                                 "Chart slot has data but no chart shape on slide")>>
                      ELSE <<>>)
        ELSE
        LET chart == MatchChart(charts, slot)
            with_data == {i \in 1..n : ~_is_missing(data(i)) /\ Truthy(data(i))}
            expected_series == IF with_data = {} THEN n ELSE Cardinality(with_data)
            actual_series == Len(chart.series)
            categories == dict_get(payload, slot.categories_key)
        IN  OkIssues(
                (IF slot.chart_type \in ChartTypes /\ chart.chart_type # slot.chart_type
                 THEN <<SlotIssue("error", slide_schema, slot, "chart_type",
                                  "Chart type " \o chart.chart_type)>>
                 ELSE <<>>)
                \o (IF ~IsDoughnutType(slot.chart_type) /\ actual_series # expected_series
                    THEN <<SlotIssue("warning", slide_schema, slot, "chart_series_count",
                                     "Chart has " \o ToString(actual_series)
                                         \o " series, expected "
                                         \o ToString(expected_series))>>
                    ELSE <<>>)
                \o (IF slot.categories_key # "" /\ Truthy(categories)
                       /\ categories.t = "list"
                    THEN Concat(Tuple([i \in 1..n |->
                             IF Truthy(data(i)) /\ data(i).t = "list"
                                /\ Len(data(i).l) # Len(categories.l)
                             THEN <<SlotIssue("error", slide_schema, slot,
                                              "chart_data_length", slot.series[i].name)>>
                             ELSE <<>>]))
                    ELSE <<>>))

\* the dispatch table of _check_slot: an image slot has no checker
_check_slot(slide, slot, slide_schema, payload) ==
    CASE slot.slot_type = "kpi_value" -> _check_kpi_slot(slide, slot, slide_schema, payload)
      [] slot.slot_type = "table" -> _check_table_slot(slide, slot, slide_schema, payload)
      [] slot.slot_type = "chart" -> _check_chart_slot(slide, slot, slide_schema, payload)
      [] slot.slot_type \in {"text", "static", "section_divider"} ->
            _check_text_slot(slide, slot, slide_schema, payload)
      [] OTHER -> OkIssues(<<>>)

\* what _check_slide did given the outcomes of its _check_slot calls: the
\* issues or the exception (out), and the calls made up to the one that raised
SlideResult(slide_schema, background, rs) ==
    LET last == IF FirstRaise(rs) # 0 THEN FirstRaise(rs) ELSE Len(rs)
    IN  [out |-> IF FirstRaise(rs) # 0 THEN rs[FirstRaise(rs)]
                 ELSE OkIssues(background
                          \o Concat(Tuple([j \in 1..Len(rs) |-> rs[j].issues]))),
         calls |-> Tuple([j \in 1..last |->
                       <<slide_schema.index, slide_schema.slots[j].name>>])]

_check_slide(design, slide, slide_schema, payload) ==
    SlideResult(slide_schema,
        IF slide_schema.slide_type = "divider"
        THEN _check_divider_background(design, slide, slide_schema)
        ELSE <<>>,
        Tuple([j \in 1..Len(slide_schema.slots) |->
            _check_slot(slide, slide_schema.slots[j], slide_schema, payload)]))

\* prs.slides[idx]: a Python list index, negative ones count from the end
SlideAt(prs, idx) ==
    IF 0 <= idx /\ idx < Len(prs.slides) THEN [ok |-> TRUE, slide |-> prs.slides[idx + 1]]
    ELSE IF idx < 0 /\ -idx <= Len(prs.slides)
    THEN [ok |-> TRUE, slide |-> prs.slides[Len(prs.slides) + idx + 1]]
    ELSE Raise("IndexError")

---------------------------------------------------------------------------
(* The templates the model is run on (the fixtures of tests/test_qa.py and   *)
(* variations of them), written as the dicts TemplateSchema.from_dict takes. *)

W == 13333      \* width_inches = 13.333, in thousandths
H == 7500       \* height_inches = 7.5

Kpi(name, data_key, variance_key, format_rule) ==
    [DataSlot(name, "kpi_value", data_key) EXCEPT
        !.left = 500, !.top = 1000, !.font = "#000000", !.format_rule = format_rule,
        !.label = "Revenue", !.variance_key = variance_key]

Columns ==
    <<TableColumn("Channel", "channel", NoRule),
      TableColumn("Revenue", "revenue", FormatRule("currency")),
      TableColumn("vs Target", "vs_target", FormatRule("variance_percentage"))>>

Table(name, data_key, row_data_key) ==
    [DataSlot(name, "table", data_key) EXCEPT
        !.left = 500, !.top = 1500, !.columns = Columns, !.row_data_key = row_data_key]

Chart(name, data_key, chart_type, categories_key, series) ==
    [DataSlot(name, "chart", data_key) EXCEPT
        !.left = 500, !.top = 1500, !.chart_type = chart_type,
        !.categories_key = categories_key, !.series = series]

Text(name, slot_type, data_key, font) ==
    [DataSlot(name, slot_type, data_key) EXCEPT !.left = 1000, !.top = 2000, !.font = font]

SchemaDict(name, width, slides) ==
    [name |-> name, width_inches |-> width, height_inches |-> H, slides |-> slides]

\* kpi_schema, one for each format rule and one without a rule
KpiDict(format_rule) ==
    SchemaDict("KPI Test", W,
        <<SlideSchema(0, "kpi_slide", "data",
            <<Kpi("revenue", "test.revenue", "test.revenue_var", format_rule)>>)>>)

\* two KPIs with a variance each on one slide
CoverDict ==
    SchemaDict("Cover", W,
        <<SlideSchema(0, "cover", "cover",
            <<Kpi("revenue", "cover.revenue", "cover.revenue_var", FormatRule("currency")),
              Kpi("orders", "cover.orders", "cover.orders_var", FormatRule("integer"))>>)>>)

\* table_schema with a second table of the same columns on the slide
TableDict ==
    SchemaDict("Table Test", W,
        <<SlideSchema(0, "table_slide", "data",
            <<Table("test_table", "test.table", "test.rows"),
              Table("second_table", "test.table2", "test.rows2")>>)>>)

\* chart_schema
ChartDict ==
    SchemaDict("Chart Test", W,
        <<SlideSchema(0, "chart_slide", "data",
            <<Chart("daily_chart", "test.chart", "column_clustered", "test.dates",
                <<ChartSeries("Revenue", "test.revenue_series", "#0065E0"),
                  ChartSeries("Target", "test.target_series", "#D1D5DB")>>)>>)>>)

\* doughnut_schema
DoughnutDict ==
    SchemaDict("Doughnut Test", W,
        <<SlideSchema(0, "gauge_slide", "data",
            <<Chart("gauge", "test.gauge", "doughnut", "",
                <<ChartSeries("Achieved", "test.achieved", "#0065E0"),
                  ChartSeries("Remaining", "test.remaining", "#D1D5DB")>>)>>)>>)

\* divider_schema with a text, a static and an image slot added
DividerDict ==
    SchemaDict("Divider Test", W,
        <<SlideSchema(0, "divider_slide", "divider",
            <<Text("section_title", "section_divider", "divider.title", "#FFFFFF"),
              Text("body", "text", "divider.body", "#000000"),
              Text("logo", "image", "divider.logo", "")>>)>>)

\* a section divider slot on a slide that is declared a data slide
DividerOnDataDict ==
    SchemaDict("Divider On Data", W,
        <<SlideSchema(0, "summary", "data",
            <<Text("section_title", "section_divider", "divider.title", "#FFFFFF")>>)>>)

\* a two-slide template
TwoSlideDict ==
    SchemaDict("Two Slides", W,
        <<SlideSchema(0, "cover", "cover",
            <<Kpi("revenue", "test.revenue", "", FormatRule("currency"))>>),
          SlideSchema(1, "notes", "manual",
            <<Text("title", "static", "test.title", "#000000")>>)>>)

\* a one-slide template of another width
NarrowDict ==
    SchemaDict("Narrow", 10000,
        <<SlideSchema(0, "kpi_slide", "data",
            <<Kpi("revenue", "test.revenue", "", FormatRule("currency"))>>)>>)

\* templates that break the contract of a template: slide indices that are
\* not 0..n-1 in order, two slots of one name, a data key without a namespace
GapDict ==
    SchemaDict("Gap", W,
        <<SlideSchema(0, "cover", "cover",
            <<Kpi("revenue", "test.revenue", "", FormatRule("currency"))>>),
          SlideSchema(2, "notes", "manual",
            <<Text("title", "static", "test.title", "#000000")>>)>>)

SwappedDict ==
    SchemaDict("Swapped", W,
        <<SlideSchema(1, "cover", "cover",
            <<Kpi("revenue", "test.revenue", "", FormatRule("currency"))>>),
          SlideSchema(0, "notes", "manual",
            <<Text("title", "static", "test.title", "#000000")>>)>>)

DuplicateDict ==
    SchemaDict("Duplicate", W,
        <<SlideSchema(0, "text_slide", "data",
            <<Text("title", "text", "test.title", "#000000"),
              Text("title", "text", "test.body", "#000000")>>)>>)

BareKeyDict ==
    SchemaDict("Bare Key", W,
        <<SlideSchema(0, "kpi_slide", "data",
            <<Kpi("revenue", "revenue", "", FormatRule("currency"))>>)>>)

SchemaDicts ==
    {KpiDict(NoRule)} \cup {KpiDict(FormatRule(ft)) : ft \in FormatTypes}
    \cup {CoverDict, TableDict, ChartDict, DoughnutDict, DividerDict,
          DividerOnDataDict, TwoSlideDict,
          NarrowDict, GapDict, SwappedDict, DuplicateDict, BareKeyDict}

---------------------------------------------------------------------------
(* The payloads: for each data key the values it is given; a key may also  *)
(* be absent from the payload.                                             *)

MaxRows == 2    \* the longest row list of a table

RowA == PyDict([channel |-> PyStr("Email"), revenue |-> PyInt(5200),
                vs_target |-> PyFloat(52)])
RowB == PyDict([channel |-> PyStr("Social"), revenue |-> PyInt(999),
                vs_target |-> PyFloat(-31)])
RowMissing == PyDict([channel |-> PyStr("Search"), revenue |-> None, vs_target |-> NaN])

RowLists ==
    {PyList(l) : l \in UNION {[1..n -> {RowA, RowB}] : n \in 0..MaxRows}}
    \cup {PyList(<<RowMissing>>), PyList(<<PyInt(5)>>), PyInt(5)}

IntList(l) == PyList(Tuple([i \in 1..Len(l) |-> PyInt(l[i])]))

Vals(key) ==
    CASE key \in {"test.revenue"} ->
            {None, NaN, PosInf, NegInf, PyInt(999), PyInt(209200), PyFloat(52),
             PyStr("abc"), IntList(<<1>>)}
      [] key = "test.revenue_var" -> {PyFloat(100)}
      [] key = "revenue" -> {PyInt(999)}
      [] key = "cover.revenue" -> {PyInt(209200)}
      [] key = "cover.orders" -> {PyInt(1234), PosInf}
      [] key \in {"cover.revenue_var", "cover.orders_var"} ->
            {None, PyFloat(0), PyFloat(100), PyFloat(-31)}
      [] key = "test.table" -> {PyStr("No data")}
      [] key \in {"test.rows", "test.rows2"} -> RowLists
      [] key = "test.dates" ->
            {PyList(<<>>), PyList(<<PyStr("Mon"), PyStr("Tue")>>), PyInt(5)}
      [] key = "test.revenue_series" ->
            {None, NaN, IntList(<<1, 2>>), IntList(<<1>>), PyInt(5)}
      [] key = "test.target_series" -> {IntList(<<3, 4>>), IntList(<<3, 4, 5>>)}
      [] key \in {"test.achieved", "test.remaining"} ->
            {None, NaN, PyInt(0), PyInt(75), PosInf, PyStr("n/a")}
      [] key = "divider.title" -> {None, NaN, PyStr("Q3 Review"), PyInt(5)}
      [] key = "divider.body" ->
            {PyStr("Hello"), PyList(<<PyStr("a"), PyStr("b")>>), PosInf}
      [] key = "divider.logo" -> {PyStr("logo.png")}
      [] key = "test.title" -> {PyStr("Hello"), PyInt(5)}
      [] key = "test.body" -> {PyStr("World")}
      [] OTHER -> {}

EmptyPayload == [k \in {} |-> None]

\* the payloads over a set of keys: each key absent or with one of its values
RECURSIVE PayloadsOver(_)
PayloadsOver(keys) ==
    IF keys = {} THEN {EmptyPayload}
    ELSE LET k == CHOOSE x \in keys : TRUE
             rest == PayloadsOver(keys \ {k})
         IN  rest \cup {(k :> v) @@ f : v \in Vals(k), f \in rest}

Payloads(schema) == PayloadsOver(top_level_keys(schema))

---------------------------------------------------------------------------
(* PPTXBuilder.build and QAValidator.validate *)

\* the bytes of the presentation made of the slides, or the exception of the
\* first slide that raised
PresentationOf(schema, rs) ==
    IF FirstRaise(rs) # 0 THEN rs[FirstRaise(rs)]
    ELSE [ok |-> TRUE,
          bytes |-> save([slide_width |-> Inches(schema.width_inches),
                          slide_height |-> Inches(schema.height_inches),
                          slides |-> Tuple([i \in 1..Len(rs) |-> rs[i].slide])])]

\* a builder whose slides share one shape collection: each slide also holds
\* the shapes of the slides before it
SharedShapes(slides) ==
    Tuple([i \in 1..Len(slides) |->
        [slides[i] EXCEPT !.shapes =
            Concat(Tuple([h \in 1..i |-> slides[h].shapes]))]])

build_shared_shapes(schema, payload) ==
    LET b == PresentationOf(schema,
                 Tuple([i \in 1..Len(schema.slides) |->
                     _build_slide(schema.design, schema.slides[i], payload)]))
    IN  IF ~b.ok THEN b
        ELSE [b EXCEPT !.bytes.prs.slides = SharedShapes(@)]

build(schema, payload) ==
    PresentationOf(schema,
        Tuple([i \in 1..Len(schema.slides) |->
            _build_slide(schema.design, schema.slides[i], payload)]))

\* the mutations of the guard of the per-slide loop
PerSlideAlways(schema, prs) == TRUE
PerSlideIfStructureOk(schema, prs) ==
    _check_slide_count(schema, prs) \o _check_dimensions(schema, prs) = <<>>

\* the guard of the per-slide loop of validate
PerSlideChecks(schema, prs) == Len(prs.slides) = Len(schema.slides)

\* what the per-slide loop did given the outcome of each slide: the report or
\* the exception (out), and the _check_slot calls made (calls)
LoopResult(first, rs) ==
    LET last == IF FirstRaise([i \in 1..Len(rs) |-> rs[i].out]) # 0
                THEN FirstRaise([i \in 1..Len(rs) |-> rs[i].out]) ELSE Len(rs)
    IN  [out |-> IF last # 0 /\ ~rs[last].out.ok THEN rs[last].out
                 ELSE OkIssues(first
                          \o Concat(Tuple([i \in 1..Len(rs) |-> rs[i].out.issues]))),
         calls |-> Concat(Tuple([i \in 1..last |-> rs[i].calls]))]

\* slide = prs.slides[slide_schema.index]; self._check_slide(slide, ...)
CheckSlideAt(schema, prs, slide_schema, at, payload) ==
    IF ~at.ok THEN [out |-> at, calls |-> <<>>]
    ELSE _check_slide(schema.design, at.slide, slide_schema, payload)

\* validate: out is the report ([ok, issues]) or the exception, calls the
\* _check_slot calls that were made
validate(schema, pptx_bytes, payload) ==
    IF ~Presentation(pptx_bytes).ok
    THEN [out |-> Presentation(pptx_bytes), calls |-> <<>>]
    ELSE IF ~PerSlideChecks(schema, Presentation(pptx_bytes).prs)
    THEN [out |-> OkIssues(
                      _check_slide_count(schema, Presentation(pptx_bytes).prs)
                      \o _check_dimensions(schema, Presentation(pptx_bytes).prs)
                      \o _check_payload_coverage(schema, payload)),
          calls |-> <<>>]
    ELSE LoopResult(
             _check_slide_count(schema, Presentation(pptx_bytes).prs)
                 \o _check_dimensions(schema, Presentation(pptx_bytes).prs)
                 \o _check_payload_coverage(schema, payload),
             Tuple([i \in 1..Len(schema.slides) |->
                 CheckSlideAt(schema, Presentation(pptx_bytes).prs, schema.slides[i],
                     SlideAt(Presentation(pptx_bytes).prs, schema.slides[i].index),
                     payload)]))

\* type(value).__name__
TypeName(v) ==
    CASE v.t = "none" -> "NoneType"
      [] v.t = "int" -> "int"
      [] v.t \in {"float", "nan", "inf"} -> "float"
      [] v.t = "str" -> "str"
      [] v.t = "list" -> "list"
      [] v.t = "dict" -> "dict"

\* _check_slot_payload, table slots: the row data is a list, and the first
\* row has the column keys (set(rows[0].keys()) raises on a row without keys)
TablePayloadIssues(slot, slide_schema, rows) ==
    IF rows.t # "none" /\ rows.t # "list"
    THEN OkIssues(<<SlotIssue("error", slide_schema, slot, "type_error",
             "row_data_key '" \o slot.row_data_key \o "' should be a list, got "
                 \o TypeName(rows))>>)
    ELSE IF rows.t = "list" /\ rows.l # <<>>
    THEN IF rows.l[1].t # "dict" THEN Raise("AttributeError")
         ELSE OkIssues(Concat(Tuple([c \in 1..Len(slot.columns) |->
                  IF slot.columns[c].data_key \notin DOMAIN rows.l[1].d
                  THEN <<SlotIssue("warning", slide_schema, slot, "column_key_missing",
                           "Column '" \o slot.columns[c].header \o "' expects key '"
                               \o slot.columns[c].data_key \o "' not found in row data")>>
                  ELSE <<>>])))
    ELSE OkIssues(<<>>)

\* _check_slot_payload, chart slots: the issues for one series
SeriesPayloadIssues(slot, slide_schema, series, categories, series_data) ==
    IF series_data.t = "none" THEN <<>>
    ELSE IF _is_doughnut(slot.chart_type) THEN <<>>
    ELSE IF series_data.t # "list"
    THEN <<SlotIssue("error", slide_schema, slot, "type_error",
             "Series '" \o series.name \o "' data_key '" \o series.data_key
                 \o "' should be a list, got " \o TypeName(series_data))>>
    ELSE IF Truthy(categories) /\ categories.t = "list"
            /\ Len(series_data.l) # Len(categories.l)
    THEN <<SlotIssue("error", slide_schema, slot, "series_length_mismatch",
             "Series '" \o series.name \o "' has " \o ToString(Len(series_data.l))
                 \o " values but " \o ToString(Len(categories.l)) \o " categories")>>
    ELSE <<>>

_check_slot_payload(slot, slide_schema, payload) ==
    Collect(<<
        IF slot.slot_type = "table" /\ slot.row_data_key # ""
        THEN TablePayloadIssues(slot, slide_schema,
                 dict_get(payload, slot.row_data_key))
        ELSE OkIssues(<<>>),
        IF slot.slot_type = "chart" /\ slot.series # <<>>
        THEN OkIssues(Concat(Tuple([k \in 1..Len(slot.series) |->
                 SeriesPayloadIssues(slot, slide_schema, slot.series[k],
                     IF slot.categories_key # ""
                     THEN dict_get(payload, slot.categories_key) ELSE None,
                     dict_get(payload, slot.series[k].data_key))])))
        ELSE OkIssues(<<>>),
        IF /\ slot.slot_type = "kpi_value"
           /\ dict_get(payload, slot.data_key).t \in {"list", "dict"}
        THEN OkIssues(<<SlotIssue("error", slide_schema, slot, "type_error",
                 "KPI value for '" \o slot.data_key
                     \o "' should be numeric or string, got "
                     \o TypeName(dict_get(payload, slot.data_key)))>>)
        ELSE OkIssues(<<>>)>>)

_check_payload_types(schema, payload) ==
    Collect(Concat(Tuple([i \in 1..Len(schema.slides) |->
        Tuple([j \in 1..Len(schema.slides[i].slots) |->
            _check_slot_payload(schema.slides[i].slots[j], schema.slides[i],
                                payload)])])))

\* validate_payload: the report, or the exception
validate_payload(schema, payload) ==
    Collect(<<OkIssues(_check_payload_coverage(schema, payload)),
              _check_payload_types(schema, payload)>>)

---------------------------------------------------------------------------
(* processor/mapper.py: DataMapper. The ingested sources are kept as what   *)
(* the stages look at: whether a source is there, whether the tracker's RAW *)
(* DATA sheet has its columns, and the month's totals. A stage is the       *)
(* sequence of its _put, _warn and raise steps (a RAW DATA sheet without    *)
(* its columns raises KeyError where a stage filters it); of the metrics a  *)
(* stage puts the model keeps the revenue ones.                             *)

Put(key, value) == [op |-> "put", key |-> key, value |-> value]
Warn(msg) == [op |-> "warn", msg |-> msg]
RaiseOp(exc) == [op |-> "raise", exc |-> exc]

\* the template the mapper is made with
MapperSchema ==
    from_dict(SchemaDict("Monthly", W,
        <<SlideSchema(0, "cover", "cover",
            <<Kpi("revenue", "cover.total_revenue", "cover.revenue_vs_target",
                  FormatRule("currency"))>>),
          SlideSchema(1, "promo", "data",
            <<Table("promo_table", "promo.table", "promo.rows"),
              Text("narrative", "text", "seo.narrative", "#000000")>>)>>))

\* self._put(key, value)
_put(payload, key, value) ==
    (key :> (IF value.t \in {"none", "nan", "inf"} THEN None ELSE value)) @@ payload

\* the stages of map, in the order map calls them, each with the helpers it
\* uses (variance_pct, _clean)
Stages(sources) ==
    LET
        \* variance_pct: (current - prior) / prior in tenths of a percent, 0.0 for
        \* equal values, NaN for a prior of zero
        variance_pct(current, prior) ==
            IF current = prior THEN PyFloat(0)
            ELSE IF prior = 0 THEN NaN
            ELSE PyFloat(((current - prior) * 1000) \div prior)

        \* _clean: None, NaN and an infinity become None
        _clean(val) == IF val.t \in {"none", "nan", "inf"} THEN None ELSE val

        _map_cover ==
            <<Put("cover.report_title", PyStr("No7 US x THGi Monthly eComm Report")),
              Put("cover.report_period", PyStr("January 2026 Overview"))>>
            \o (IF sources.raw.kind = "none"
                THEN <<Warn("cover: RAW DATA sheet not available")>>
                ELSE IF sources.raw.kind = "bad" THEN <<RaiseOp("KeyError")>>
                ELSE <<Put("cover.total_revenue", PyInt(sources.raw.revenue))>>
                     \o (IF sources.targets.kind # "none"
                         THEN <<Put("cover.revenue_vs_target",
                                    variance_pct(sources.raw.revenue,
                                                 sources.targets.revenue))>>
                         ELSE <<Warn("cover: Target data not available")>>))

        _map_executive_summary ==
            <<Put("exec.title", PyStr("eComm Performance")),
              Put("exec.performance_table", PyStr("Performance Summary"))>>
            \o (IF sources.raw.kind = "none"
                THEN <<Warn("exec: RAW DATA sheet not available"),
                       Put("exec.performance_rows", PyList(<<>>)),
                       Put("exec.narrative", None)>>
                ELSE IF sources.raw.kind = "bad" THEN <<RaiseOp("KeyError")>>
                ELSE <<Put("exec.performance_rows",
                           PyList(<<PyDict([channel |-> PyStr("TOTAL"),
                                            revenue |-> _clean(PyInt(sources.raw.revenue)),
                                            revenue_vs_target |->
                                                IF sources.targets.kind # "none"
                                                THEN _clean(variance_pct(
                                                         sources.raw.revenue,
                                                         sources.targets.revenue))
                                                ELSE None])>>)),
                       Put("exec.narrative", None)>>)

        _map_daily_performance ==
            <<Put("daily.title", PyStr("Daily Performance")),
              Put("daily.chart", PyStr("Daily Revenue vs Target"))>>
            \o (IF sources.raw.kind = "none"
                THEN <<Warn("daily: RAW DATA sheet not available")>>
                ELSE IF sources.raw.kind = "bad" THEN <<RaiseOp("KeyError")>>
                ELSE <<Put("daily.dates", PyList(<<PyStr("1/1"), PyStr("1/2")>>)),
                       Put("daily.revenue_actual",
                           PyList(<<PyInt(sources.raw.revenue), PyInt(0)>>)),
                       Put("daily.campaign_rows", PyList(<<>>))>>)

        _map_promotion_performance ==
            <<Put("promo.title", PyStr("Promotion Performance")),
              Put("promo.table", PyStr("Promotion Summary"))>>
            \o (IF ~sources.offer
                THEN <<Warn("promo: Offer performance data not available"),
                       Put("promo.rows", PyList(<<>>))>>
                ELSE <<Put("promo.rows",
                           PyList(<<PyDict([promotion_name |-> PyStr("Spring Sale"),
                                            revenue |-> PyInt(500)])>>))>>)

        _map_product_performance ==
            <<Put("product.title", PyStr("Product Performance")),
              Put("product.table", PyStr("Product Summary"))>>
            \o (IF ~sources.product
                THEN <<Warn("product: Product sales data not available"),
                       Put("product.rows", PyList(<<>>))>>
                ELSE <<Put("product.rows",
                           PyList(<<PyDict([product_name |-> PyStr("Serum"),
                                            revenue |-> PyInt(300)])>>))>>)

        _map_crm ==
            <<Put("crm.title", PyStr("CRM Performance")),
              Put("crm.detail_table", PyStr("CRM Detail"))>>
            \o (IF ~sources.crm THEN <<Warn("crm: CRM data not available")>>
                ELSE <<Put("crm.revenue", PyInt(200)),
                       Put("crm.revenue_vs_ly", None),
                       Put("crm.detail_rows", PyList(<<>>))>>)

        _map_affiliate_from_tracker ==
            IF sources.raw.kind = "none"
            THEN <<Warn("affiliate: No fallback data available"),
                   Put("affiliate.publisher_rows", PyList(<<>>))>>
            ELSE IF sources.raw.kind = "bad" THEN <<RaiseOp("KeyError")>>
            ELSE <<Put("affiliate.revenue", PyInt(sources.raw.revenue)),
                   Put("affiliate.publisher_rows", PyList(<<>>))>>

        _map_affiliate ==
            <<Put("affiliate.title", PyStr("Affiliate Performance")),
              Put("affiliate.publisher_table", PyStr("Top Publishers"))>>
            \o (IF ~sources.affiliate
                THEN <<Warn("affiliate: Affiliate Excel not available")>>
                     \o _map_affiliate_from_tracker
                ELSE <<Put("affiliate.revenue", PyInt(100)),
                       Put("affiliate.publisher_rows", PyList(<<>>))>>)

        _map_seo ==
            <<Put("seo.title", PyStr("SEO Performance"))>>
            \o (IF sources.raw.kind = "none" THEN <<Warn("seo: RAW DATA sheet not available")>>
                ELSE IF sources.raw.kind = "bad" THEN <<RaiseOp("KeyError")>>
                ELSE <<Put("seo.revenue", PyInt(sources.raw.revenue)),
                       Put("seo.narrative", None)>>)

        _map_static_slides ==
            <<Put("toc.items", PyList(<<PyStr("eComm Performance"), PyStr("Outlook")>>)),
              Put("divider.ecomm_title", PyStr("eComm Performance")),
              Put("upcoming.rows", PyList(<<>>)),
              Put("next_steps.items", None)>>
    IN
    _map_cover \o _map_executive_summary
    \o _map_daily_performance \o _map_promotion_performance
    \o _map_product_performance \o _map_crm
    \o _map_affiliate \o _map_seo \o _map_static_slides

\* the steps run on the mapper's _payload and _warnings, up to a raise
RECURSIVE RunOps(_, _)
RunOps(state, ops) ==
    IF ops = <<>> \/ state.raised # "" THEN state
    ELSE RunOps(
             CASE Head(ops).op = "put" ->
                      [state EXCEPT !._payload = _put(@, Head(ops).key, Head(ops).value)]
               [] Head(ops).op = "warn" ->
                      [state EXCEPT !._warnings = Append(@, Head(ops).msg)]
               [] Head(ops).op = "raise" -> [state EXCEPT !.raised = Head(ops).exc],
             Tail(ops))

\* covered / len(required), as numerator and denominator; 1.0 without keys
_compute_coverage(schema, payload) ==
    LET required == all_data_keys(schema)
    IN  IF required = {} THEN [num |-> 1, den |-> 1]
        ELSE [num |-> Cardinality({k \in required :
                          k \in DOMAIN payload /\ payload[k] # None}),
              den |-> Cardinality(required)]

\* what a call of map left on the mapper and returned, given the state the
\* stages ended in
MappingResult(m, end) ==
    [m EXCEPT !._payload = end._payload,
              !._warnings = end._warnings,
              !.out = IF end.raised # "" THEN Raise(end.raised)
                      ELSE [ok |-> TRUE, payload |-> end._payload,
                            warnings |-> end._warnings,
                            coverage |-> _compute_coverage(m.schema, end._payload)]]

\* a map that goes on from the _payload and _warnings of the call before
map_keeping_state(m, sources) ==
    MappingResult(m, RunOps([_payload |-> m._payload, _warnings |-> m._warnings,
                             raised |-> ""], Stages(sources)))

\* DataMapper.map: self._payload = {}, self._warnings = [], then the stages
map(m, sources) ==
    MappingResult(m, RunOps([_payload |-> EmptyPayload, _warnings |-> <<>>,
                             raised |-> ""], Stages(sources)))

\* DataMapper(schema, month, year): self._payload = {}, self._warnings = []
NewMapper ==
    [schema |-> MapperSchema, _payload |-> EmptyPayload, _warnings |-> <<>>,
     out |-> NoCall, calls |-> <<>>]

---------------------------------------------------------------------------
(* Build and validate: a template is loaded, a presentation is built from   *)
(* a payload, and validate is called on bytes, a schema and a payload.      *)

NoBytes == [kind |-> "none"]

Init ==
    /\ fmtValue = None
    /\ fmtType = "text"
    /\ fmtOut = NoCall
    /\ qaIssues = <<>>
    /\ bschema = NoSchema
    /\ bpayload = EmptyPayload
    /\ built = NoCall
    /\ vbytes = NoBytes
    /\ vschema = NoSchema
    /\ vpayload = EmptyPayload
    /\ result = NoCall
    /\ checked = <<>>
    /\ colorOut = NoCall
    /\ rendered = NoCall
    /\ firstCall = NoCall
    /\ payloadReport = NoCall
    /\ generated = NoCall
    /\ mapper = NewMapper
    /\ rebuilt = NoCall

\* load_schema / TemplateSchema.from_dict, then PPTXBuilder(schema)
LoadSchema(d) ==
    /\ bschema = NoSchema
    /\ bschema' = from_dict(d)
    /\ UNCHANGED <<fmtValue, fmtType, fmtOut, qaIssues, bpayload, built,
                   vbytes, vschema, vpayload, result, checked,
                   colorOut, rendered, firstCall, payloadReport,
                   generated, mapper, rebuilt>>

\* PPTXBuilder(bschema).build(p)
Build(p) ==
    /\ bschema # NoSchema
    /\ built = NoCall
    /\ bpayload' = p
    /\ built' = build(bschema, p)
    /\ UNCHANGED <<fmtValue, fmtType, fmtOut, qaIssues, bschema,
                   vbytes, vschema, vpayload, result, checked,
                   colorOut, rendered, firstCall, payloadReport,
                   generated, mapper, rebuilt>>

\* the templates a validator is made with besides the builder's own
OtherSchemas == {from_dict(TwoSlideDict), from_dict(NarrowDict)}

\* the payloads validate is called with: the payload of the build, the empty
\* payload, the payload with one value replaced by a scalar, and the payload
\* with one key left out
ValidatePayloads ==
    {bpayload, EmptyPayload}
    \cup {[bpayload EXCEPT ![k] = PyInt(5)] : k \in DOMAIN bpayload}
    \cup {[k \in DOMAIN bpayload \ {x} |-> bpayload[k]] : x \in DOMAIN bpayload}

\* the calls of validate that are made: on bytes that are no presentation; on
\* the built presentation with the builder's schema and each of the payloads
\* above; on the built presentation with another schema
ValidateArgs ==
    {<<Garbage, bschema, bpayload>>}
    \cup (IF built.ok
          THEN {<<built.bytes, bschema, vp>> : vp \in ValidatePayloads}
               \cup {<<built.bytes, vs, bpayload>> : vs \in OtherSchemas}
          ELSE {})

Returned(b, vs, vp, r) ==
    /\ vbytes' = b
    /\ vschema' = vs
    /\ vpayload' = vp
    /\ result' = r.out
    /\ checked' = r.calls
    /\ UNCHANGED <<fmtValue, fmtType, fmtOut, qaIssues, bschema, bpayload, built,
                   colorOut, rendered, firstCall, payloadReport,
                   generated, mapper, rebuilt>>

\* QAValidator(vs).validate(b, vp)
Validate(b, vs, vp) ==
    /\ built # NoCall
    /\ Returned(b, vs, vp, validate(vs, b, vp))

Next ==
    \/ \E d \in SchemaDicts : LoadSchema(d)
    \/ \E p \in Payloads(bschema) : Build(p)
    \/ \E a \in ValidateArgs : Validate(a[1], a[2], a[3])

Spec == Init /\ [][Next]_vars

---------------------------------------------------------------------------
(* format_value on one value and one format type *)

FormatValues ==
    {None, NaN, PosInf, NegInf, PyInt(0), PyInt(999), PyInt(1000), PyInt(209200),
     PyInt(1500000), PyInt(-5), PyFloat(52), PyFloat(-31), PyStr("abc"),
     PyFloat(0), PyInt(-1500), PyInt(999949), PyInt(999950), PyFloat(9999995),
     PyInt(1000000), PyInt(1234567), PyList(<<PyInt(1)>>)}

\* the colours variance_color is called with: its defaults, and another choice
ColorChoices ==
    {<<"#00AA00", "#CC0000", "#000000">>, <<"#008000", "#FF0000", "#666666">>}

FormatInit ==
    /\ fmtValue \in FormatValues
    /\ fmtType \in FormatTypes
    /\ fmtOut = NoCall
    /\ qaIssues = <<>>
    /\ bschema = NoSchema
    /\ bpayload = EmptyPayload
    /\ built = NoCall
    /\ vbytes = NoBytes
    /\ vschema = NoSchema
    /\ vpayload = EmptyPayload
    /\ result = NoCall
    /\ checked = <<>>
    /\ colorOut = NoCall
    /\ rendered = NoCall
    /\ firstCall = NoCall
    /\ payloadReport = NoCall
    /\ generated = NoCall
    /\ mapper = NewMapper
    /\ rebuilt = NoCall

Format ==
    /\ fmtOut = NoCall
    /\ fmtOut' = format_value(fmtValue, fmtType)
    /\ UNCHANGED <<fmtValue, fmtType, qaIssues, bschema, bpayload, built,
                   vbytes, vschema, vpayload, result, checked,
                   colorOut, rendered, firstCall, payloadReport,
                   generated, mapper, rebuilt>>

\* variance_color(fmtValue, positive, negative, neutral)
Color(c) ==
    /\ colorOut = NoCall
    /\ colorOut' = [colors |-> c, out |-> variance_color(fmtValue, c[1], c[2], c[3])]
    /\ UNCHANGED <<fmtValue, fmtType, fmtOut, qaIssues, bschema, bpayload, built,
                   vbytes, vschema, vpayload, result, checked,
                   rendered, firstCall, payloadReport,
                   generated, mapper, rebuilt>>

FormatNext ==
    \/ Format
    \/ \E c \in ColorChoices : Color(c)

FormatSpec == FormatInit /\ [][FormatNext]_vars

---------------------------------------------------------------------------
(* One QAValidator(bschema) used for several calls: validate on the built   *)
(* presentation or on other bytes, with the payload of the build, the empty *)
(* payload or a payload with a value replaced, and validate_payload in      *)
(* between.                                                                 *)

RepeatDicts ==
    {KpiDict(FormatRule("currency")), CoverDict, TableDict, ChartDict,
     DoughnutDict, DividerDict, GapDict}

\* the empty payload and the payloads of a single key
RepeatPayloads(schema) ==
    {EmptyPayload}
    \cup UNION {{(k :> v) @@ EmptyPayload : v \in Vals(k)} : k \in top_level_keys(schema)}

\* validate appending to the report of the call before
AccumulatedResult(previous, out) ==
    IF previous.ok /\ out.ok
    THEN OkIssues(previous.issues \o out.issues) ELSE out

\* result = QAResult(): every call of validate starts a report of its own
NewResult(previous, out) == out

\* what a call of validate on the validator did, given what validate computed
Revalidated(b, vp, r) ==
    /\ vbytes' = b
    /\ vschema' = bschema
    /\ vpayload' = vp
    /\ result' = NewResult(result, r.out)
    /\ checked' = r.calls
    /\ firstCall' =
           IF firstCall = NoCall
           THEN [bytes |-> b, payload |-> vp, out |-> NewResult(result, r.out),
                 between |-> FALSE, repeated |-> FALSE]
           ELSE [firstCall EXCEPT
                    !.between = @ \/ b # firstCall.bytes \/ vp # firstCall.payload,
                    !.repeated = @ \/ (/\ firstCall.between
                                       /\ b = firstCall.bytes
                                       /\ vp = firstCall.payload)]
    /\ UNCHANGED <<fmtValue, fmtType, fmtOut, qaIssues, bschema, bpayload, built,
                   colorOut, rendered, payloadReport, generated, mapper, rebuilt>>

\* qa.validate(b, vp)
Revalidate(b, vp) ==
    /\ built # NoCall
    /\ Revalidated(b, vp, validate(bschema, b, vp))

\* qa.validate_payload(vp)
ValidatePayload(vp) ==
    /\ built # NoCall
    /\ payloadReport' = validate_payload(bschema, vp)
    /\ UNCHANGED <<fmtValue, fmtType, fmtOut, qaIssues, bschema, bpayload, built,
                   vbytes, vschema, vpayload, result, checked,
                   colorOut, rendered, firstCall, generated, mapper, rebuilt>>

\* the bytes validate is called on: the built presentation, or no presentation
RepeatBytes == {Garbage} \cup (IF built.ok THEN {built.bytes} ELSE {})

RepeatNext ==
    \/ \E d \in RepeatDicts : LoadSchema(d)
    \/ \E p \in RepeatPayloads(bschema) : Build(p)
    \/ \E b \in RepeatBytes, vp \in ValidatePayloads : Revalidate(b, vp)
    \/ \E vp \in ValidatePayloads : ValidatePayload(vp)

RepeatSpec == Init /\ [][RepeatNext]_vars

---------------------------------------------------------------------------
(* A render routine called on one slot: add_chart of charts.py, or one of   *)
(* the routines of PPTXBuilder called directly, without the dispatch of     *)
(* _render_slot.                                                            *)

\* the slots of the templates, a line chart of one series and a chart without
\* series
RenderSlots ==
    UNION {UNION {{d.slides[i].slots[j] : j \in 1..Len(d.slides[i].slots)}
                  : i \in 1..Len(d.slides)} : d \in SchemaDicts}
    \cup {Chart("trend", "test.chart", "line", "test.dates",
                <<ChartSeries("Revenue", "test.revenue_series", "#0065E0")>>),
          Chart("blank", "test.chart", "column_clustered", "test.dates", <<>>)}

Routines ==
    {"add_chart", "_build_doughnut_chart_data", "_render_kpi", "_render_table", "_render_chart", "_render_text",
     "_render_section_divider", "_render_placeholder"}

RoutineOut(routine, slot, payload) ==
    CASE routine = "add_chart" -> add_chart(slot, payload)
      [] routine = "_build_doughnut_chart_data" ->
             _build_doughnut_chart_data(slot, payload)
      [] routine = "_render_kpi" -> _render_kpi(slot, payload)
      [] routine = "_render_table" -> _render_table(slot, payload)
      [] routine = "_render_chart" -> _render_chart(slot, payload)
      [] routine = "_render_text" -> _render_text(slot, payload)
      [] routine = "_render_section_divider" -> _render_section_divider(slot, payload)
      [] routine = "_render_placeholder" -> _render_placeholder(slot, payload)

\* routine(slide, slot, payload)
Render(routine, slot, payload) ==
    /\ rendered = NoCall
    /\ rendered' = [routine |-> routine, slot |-> slot, payload |-> payload,
                    out |-> RoutineOut(routine, slot, payload)]
    /\ UNCHANGED <<fmtValue, fmtType, fmtOut, qaIssues, bschema, bpayload, built,
                   vbytes, vschema, vpayload, result, checked,
                   colorOut, firstCall, payloadReport,
                   generated, mapper, rebuilt>>

RenderNext ==
    \E routine \in Routines, slot \in RenderSlots :
        \E payload \in PayloadsOver(SlotKeys(slot)) : Render(routine, slot, payload)

RenderSpec == Init /\ [][RenderNext]_vars

---------------------------------------------------------------------------
(* QAResult: issues are appended to a report *)

MaxIssues == 4      \* the longest report

SomeIssues ==
    {Issue("error", -1, "", "", "slide_count", "Expected 2 slides, got 1"),
     Issue("warning", -1, "kpi_slide", "", "payload_missing",
           "Data key 'test.revenue' not in payload"),
     Issue("info", 0, "kpi_slide", "revenue", "note", "")}

\* result.issues.append(issue)
AddIssue(issue) ==
    /\ Len(qaIssues) < MaxIssues
    /\ qaIssues' = Append(qaIssues, issue)
    /\ UNCHANGED <<fmtValue, fmtType, fmtOut, bschema, bpayload, built,
                   vbytes, vschema, vpayload, result, checked,
                   colorOut, rendered, firstCall, payloadReport,
                   generated, mapper, rebuilt>>

ReportNext == \E issue \in SomeIssues : AddIssue(issue)

ReportSpec == Init /\ [][ReportNext]_vars

---------------------------------------------------------------------------
(* cli.py: the generate command. The payload is what DataMapper.map gave;   *)
(* found tells whether every data file named on the command line exists.    *)

\* the command ended in _error or in an exception: sys.exit(1) or a traceback
Exited(skip_qa, force, before, qa) ==
    [skip_qa |-> skip_qa, force |-> force, before |-> before, qa |-> qa,
     status |-> 1, written |-> FALSE, file |-> before]

\* output.write_bytes(pptx_bytes)
Written(skip_qa, force, before, qa, pptx_bytes) ==
    [skip_qa |-> skip_qa, force |-> force, before |-> before, qa |-> qa,
     status |-> 0, written |-> TRUE, file |-> pptx_bytes]

\* the command goes on to write whatever QA said
ContinueAlways(qa, force) == TRUE

\* if qa_result.passed: ... else: ... if not args.force: _error(...)
ContinueAfterQA(qa, force) == passed(qa.issues) \/ force

\* qa_result = validator.validate(pptx_bytes, result.payload), and what follows
AfterQA(skip_qa, force, before, pptx_bytes, qa) ==
    IF ~qa.ok THEN Exited(skip_qa, force, before, qa)
    ELSE IF ContinueAfterQA(qa, force)
    THEN Written(skip_qa, force, before, qa, pptx_bytes)
    ELSE Exited(skip_qa, force, before, qa)

\* pptx_bytes = builder.build(result.payload), and what follows
AfterBuild(schema, payload, skip_qa, force, before, b) ==
    IF ~b.ok THEN Exited(skip_qa, force, before, NoCall)
    ELSE IF skip_qa THEN Written(skip_qa, force, before, NoCall, b.bytes)
    ELSE AfterQA(skip_qa, force, before, b.bytes,
                 validate(schema, b.bytes, payload).out)

cmd_generate(schema, payload, skip_qa, force, found, before) ==
    IF ~found THEN Exited(skip_qa, force, before, NoCall)
    ELSE AfterBuild(schema, payload, skip_qa, force, before, build(schema, payload))

\* the output file: absent until a command wrote it
OutputFile == IF generated = NoCall THEN NoBytes ELSE generated.file

\* python -m src.cli generate ... --output output
Generate(d, payload, skip_qa, force, found) ==
    /\ generated' = cmd_generate(from_dict(d), payload, skip_qa, force, found,
                                 OutputFile)
    /\ UNCHANGED <<fmtValue, fmtType, fmtOut, qaIssues, bschema, bpayload, built,
                   vbytes, vschema, vpayload, result, checked,
                   colorOut, rendered, firstCall, payloadReport, mapper, rebuilt>>

\* the payload of two KPI slots, one with a variance of zero
CoverPayload ==
    ("cover.revenue" :> PyInt(209200)) @@ ("cover.revenue_var" :> PyFloat(0))
    @@ ("cover.orders_var" :> PyFloat(100))

\* the templates the command is run on, each with the payloads of a single
\* key, and the cover template with the payload above
GenerateInputs ==
    {<<d, p>> : d \in {KpiDict(FormatRule("integer"))},
                p \in RepeatPayloads(from_dict(KpiDict(FormatRule("integer"))))}
    \cup {<<CoverDict, p>> : p \in RepeatPayloads(from_dict(CoverDict))
                                   \cup {CoverPayload}}

\* --skip-qa, --force, and whether the data files exist
GenerateFlags ==
    {<<skip_qa, force, TRUE>> : skip_qa \in BOOLEAN, force \in BOOLEAN}
    \cup {<<FALSE, FALSE, FALSE>>}

GenerateNext ==
    \E input \in GenerateInputs, flags \in GenerateFlags :
        Generate(input[1], input[2], flags[1], flags[2], flags[3])

GenerateSpec == Init /\ [][GenerateNext]_vars

---------------------------------------------------------------------------
(* A template is built, then a variation of it (a slide added, removed, or  *)
(* the slides reordered) is built by a builder of its own from the same     *)
(* payload.                                                                 *)

\* the slides numbered by their position
Reindexed(slides) ==
    Tuple([i \in 1..Len(slides) |-> [slides[i] EXCEPT !.index = i - 1]])

Reversed(slides) == Tuple([i \in 1..Len(slides) |-> slides[Len(slides) + 1 - i]])

\* a slide that is in none of the templates
ExtraSlide ==
    from_dict(SchemaDict("Extra", W,
        <<SlideSchema(0, "appendix", "manual",
            <<Text("note", "static", "test.title", "#000000"),
              Kpi("total", "test.revenue", "", FormatRule("integer"))>>)>>)).slides[1]

\* the variations of a template
Variations(schema) ==
    {[schema EXCEPT !.slides = Reindexed(<<ExtraSlide>> \o @)],
     [schema EXCEPT !.slides = Reindexed(Append(@, ExtraSlide))],
     [schema EXCEPT !.slides = Reindexed(Reversed(@))]}
    \cup (IF Len(schema.slides) >= 2
          THEN {[schema EXCEPT !.slides = Reindexed(Tail(@))],
                [schema EXCEPT !.slides = Reindexed(SubSeq(@, 1, Len(@) - 1))]}
          ELSE {})

\* PPTXBuilder(schema).build(bpayload)
Rebuild(schema) ==
    /\ built # NoCall
    /\ rebuilt' = [schema |-> schema, out |-> build(schema, bpayload)]
    /\ UNCHANGED <<fmtValue, fmtType, fmtOut, qaIssues, bschema, bpayload, built,
                   vbytes, vschema, vpayload, result, checked,
                   colorOut, rendered, firstCall, payloadReport,
                   generated, mapper>>

\* the templates that are varied
RebuildDicts ==
    {KpiDict(FormatRule("currency")), KpiDict(FormatRule("integer")), CoverDict,
     ChartDict, DividerDict, TwoSlideDict}

RebuildNext ==
    \/ \E d \in RebuildDicts : LoadSchema(d)
    \/ \E p \in Payloads(bschema) : Build(p)
    \/ \E schema \in Variations(bschema) : Rebuild(schema)

RebuildSpec == Init /\ [][RebuildNext]_vars

---------------------------------------------------------------------------
(* One DataMapper on which map is called several times *)

MaxCalls == 3       \* the calls of map made on the mapper

NoSource == [kind |-> "none"]
RawData(revenue) == [kind |-> "rows", revenue |-> revenue]

\* the sources map is called with
SomeSources ==
    {[raw |-> NoSource, targets |-> NoSource, offer |-> FALSE, product |-> FALSE,
      crm |-> FALSE, affiliate |-> FALSE],
     [raw |-> [kind |-> "bad"], targets |-> NoSource, offer |-> TRUE,
      product |-> FALSE, crm |-> TRUE, affiliate |-> FALSE],
     [raw |-> RawData(1000), targets |-> NoSource, offer |-> FALSE,
      product |-> TRUE, crm |-> FALSE, affiliate |-> FALSE],
     [raw |-> RawData(1000), targets |-> RawData(800), offer |-> TRUE,
      product |-> TRUE, crm |-> TRUE, affiliate |-> TRUE],
     [raw |-> RawData(1000), targets |-> RawData(0), offer |-> TRUE,
      product |-> FALSE, crm |-> FALSE, affiliate |-> TRUE],
     [raw |-> NoSource, targets |-> RawData(800), offer |-> TRUE,
      product |-> TRUE, crm |-> TRUE, affiliate |-> FALSE]}

\* what a call of map did to the mapper, and the record of the call
Mapped(sources, after) ==
    /\ mapper' = [after EXCEPT
                     !.calls = Append(@, [sources |-> sources, out |-> after.out])]
    /\ UNCHANGED <<fmtValue, fmtType, fmtOut, qaIssues, bschema, bpayload, built,
                   vbytes, vschema, vpayload, result, checked,
                   colorOut, rendered, firstCall, payloadReport,
                   generated, rebuilt>>

\* mapper.map(sources)
Map(sources) ==
    /\ Len(mapper.calls) < MaxCalls
    /\ Mapped(sources, map(mapper, sources))

MapNext == \E sources \in SomeSources : Map(sources)

MapSpec == Init /\ [][MapNext]_vars

---------------------------------------------------------------------------
(* Vocabulary of the properties *)

IssueSet(issues) == {issues[i] : i \in 1..Len(issues)}

\* validate was called and returned a report
ValidateReturned == result # NoCall /\ result.ok

\* validate was called on bytes that are a presentation
ValidatedPresentation == result # NoCall /\ Presentation(vbytes).ok

\* the slide count of the validated presentation differs from the schema's
CountMismatch == Len(Presentation(vbytes).prs.slides) # Len(vschema.slides)

\* validate was called on the built presentation with the builder's schema and
\* the payload of the build
RoundTrip ==
    /\ result # NoCall
    /\ built.ok
    /\ vbytes = built.bytes
    /\ vschema = bschema
    /\ vpayload = bpayload

\* the contract of a template: slide indices 0..n-1 in order, no two slots of
\* one name on a slide, every data key namespaced
WellFormed(schema) ==
    /\ \A i \in 1..Len(schema.slides) : schema.slides[i].index = i - 1
    /\ \A i \in 1..Len(schema.slides) :
           \A j, k \in 1..Len(schema.slides[i].slots) :
               schema.slides[i].slots[j].name = schema.slides[i].slots[k].name => j = k
    /\ \A i \in 1..Len(schema.slides) :
           \A j \in 1..Len(schema.slides[i].slots) :
               InStr(".", schema.slides[i].slots[j].data_key)

IsListOf(v, types) == v.t = "list" /\ \A i \in 1..Len(v.l) : v.l[i].t \in types

\* every value present in the payload has the type its slot takes
WellTypedSlot(slot, p) ==
    LET present(k) == k \in DOMAIN p
    IN  CASE slot.slot_type = "kpi_value" ->
               /\ present(slot.data_key) => IsFinite(p[slot.data_key])
               /\ present(slot.variance_key) => IsFinite(p[slot.variance_key])
          [] slot.slot_type = "table" ->
               /\ present(slot.data_key) => p[slot.data_key].t = "str"
               /\ present(slot.row_data_key) => IsListOf(p[slot.row_data_key], {"dict"})
          [] slot.slot_type = "chart" /\ IsDoughnutType(slot.chart_type) ->
               \A i \in 1..Len(slot.series) :
                   present(slot.series[i].data_key) => IsFinite(p[slot.series[i].data_key])
          [] slot.slot_type = "chart" /\ ~IsDoughnutType(slot.chart_type) ->
               /\ present(slot.categories_key) => IsListOf(p[slot.categories_key], {"str"})
               /\ \A i \in 1..Len(slot.series) :
                      present(slot.series[i].data_key) =>
                          /\ IsListOf(p[slot.series[i].data_key], {"int", "float"})
                          /\ present(slot.categories_key)
                          /\ Len(p[slot.series[i].data_key].l) = Len(p[slot.categories_key].l)
          [] OTHER ->
               present(slot.data_key) =>
                   p[slot.data_key].t = "str" \/ IsListOf(p[slot.data_key], {"str"})

WellTyped(schema, p) ==
    \A slide \in SlidesOf(schema) : \A slot \in SlotsOf(slide) : WellTypedSlot(slot, p)

\* a value that stands for missing data
MissingData(v) == v.t \in {"none", "nan", "inf"}

---------------------------------------------------------------------------
(* Properties *)

\* C1: for a well-formed template and a payload whose present values are all
\* well-typed, validating the built presentation against the same schema and
\* payload returns a report without errors.
C1_RoundTripPasses ==
    (RoundTrip /\ WellFormed(bschema) /\ WellTyped(bschema, bpayload))
        => (result.ok /\ passed(result.issues))

\* C2: whatever issues were appended to a report, passed is true exactly when
\* no issue has severity error, and dropping the warnings does not change it.
C2_PassedIffNoErrors ==
    /\ passed(qaIssues) <=> ~\E i \in 1..Len(qaIssues) : qaIssues[i].severity = "error"
    /\ passed(qaIssues)
           <=> passed(SelectSeq(qaIssues, LAMBDA i : i.severity # "warning"))

\* a report of several issues, warnings among them and no error, that passed
C2_Witness ==
    /\ Len(qaIssues) >= 2
    /\ \E i \in 1..Len(qaIssues) : qaIssues[i].severity = "warning"
    /\ \A i \in 1..Len(qaIssues) : qaIssues[i].severity # "error"
    /\ passed(qaIssues)

\* C3: validate never raises: every call returns a report.
C3_ValidateNeverRaises == result # NoCall => result.ok

\* C4: build does not raise when every value of the payload is absent, None,
\* NaN, +Inf or -Inf.
C4_BuildSurvivesMissingData ==
    (built # NoCall /\ WellFormed(bschema)
        /\ \A k \in DOMAIN bpayload : MissingData(bpayload[k]))
        => built.ok

\* C5: for every payload build returns a presentation with exactly
\* len(schema.slides) slides.
C5_OneSlidePerTemplateSlide ==
    (built # NoCall /\ WellFormed(bschema))
        => (built.ok /\ Len(built.bytes.prs.slides) = Len(bschema.slides))

\* C6: when the slide count of the presentation differs from the schema's,
\* validate returns a report with a slide_count error, makes no per-slot check
\* and reports nothing but presentation-level issues.
C6_CountMismatchSkipsSlots ==
    (ValidatedPresentation /\ CountMismatch)
        => /\ result.ok
           /\ \E i \in IssueSet(result.issues) :
                  i.category = "slide_count" /\ i.severity = "error"
           /\ checked = <<>>
           /\ \A i \in IssueSet(result.issues) :
                  i.category \in {"slide_count", "dimensions", "payload_missing"}

\* a presentation with more slides than the schema, whose first slide has slots
C6_Witness ==
    /\ ValidateReturned
    /\ ValidatedPresentation
    /\ Len(Presentation(vbytes).prs.slides) > Len(vschema.slides)
    /\ vschema.slides[1].slots # <<>>
    /\ DOMAIN vpayload # {}

Structural == {"slide_count", "dimensions"}

\* the report holds a dimensions error
DimensionsError ==
    \E i \in IssueSet(result.issues) : i.category = "dimensions" /\ i.severity = "error"

\* C7 as stated: whenever a dimensions error is reported, no per-slot check
\* was made.
C7_DimensionsErrorSkipsSlots ==
    (ValidateReturned /\ DimensionsError) => checked = <<>>

\* C7 as the code has it: the slide count and the dimensions are checked
\* first (their issues come first in the report); the per-slot checks are made
\* exactly when the slide count matches, whether or not a dimensions error was
\* reported.
C7_SlotChecksFollowSlideCount ==
    ValidatedPresentation =>
        /\ checked # <<>> => ~CountMismatch
        /\ (/\ ~CountMismatch
            /\ vschema.slides # <<>>
            /\ SlideAt(Presentation(vbytes).prs, vschema.slides[1].index).ok
            /\ vschema.slides[1].slots # <<>>) => checked # <<>>
        /\ result.ok =>
               \A i, j \in 1..Len(result.issues) :
                   (i < j /\ result.issues[j].category \in Structural)
                       => result.issues[i].category \in Structural

\* a report with a dimensions error for which per-slot checks were made
C7_Witness ==
    /\ ValidateReturned
    /\ DimensionsError
    /\ checked # <<>>

\* the warning the coverage check gives for a key
MissingWarning(key) ==
    \E i \in IssueSet(result.issues) :
        /\ i.category = "payload_missing"
        /\ i.severity = "warning"
        /\ i.message = "Data key '" \o key \o "' not in payload"

\* C8 as stated: every key of all_data_keys (column data keys included) that
\* is absent from the payload has a warning in the report.
C8_EveryReferencedKeyWarned ==
    ValidateReturned =>
        \A key \in all_data_keys(vschema) \ DOMAIN vpayload : MissingWarning(key)

\* the keys a slot looks up in the payload itself: its data key, variance key,
\* row-data key, categories key and series data keys
PayloadKeys(schema) ==
    UNION {UNION {
        {slot.data_key} \cup ({slot.variance_key, slot.row_data_key,
                               slot.categories_key} \ {""})
        \cup {slot.series[k].data_key : k \in 1..Len(slot.series)}
        : slot \in SlotsOf(slide)} : slide \in SlidesOf(schema)}

\* C8 as the code has it: every key a slot looks up in the payload itself
\* (column data keys, which are looked up in the rows, are not among them)
\* that is absent from the payload has a warning in the report; an issue about
\* an absent key is never an error; and validating a presentation built from
\* the empty payload against the empty payload gives no error at all.
C8_PayloadKeysWarned ==
    ValidateReturned =>
        /\ \A key \in PayloadKeys(vschema) \ DOMAIN vpayload : MissingWarning(key)
        /\ \A i \in IssueSet(result.issues) :
               i.category = "payload_missing" => i.severity = "warning"
        /\ (RoundTrip /\ WellFormed(bschema) /\ DOMAIN bpayload = {})
               => passed(result.issues)

\* a report on a payload without the rows of a table, for a template that
\* also has column data keys
C8_Witness ==
    /\ ValidateReturned
    /\ all_data_keys(vschema) # PayloadKeys(vschema)
    /\ "test.rows" \notin DOMAIN vpayload
    /\ MissingWarning("test.rows")

\* C9: a template that breaks the contract is never built into a presentation
\* and never validated to a report.
C9_MalformedTemplateRejected ==
    /\ built.ok => WellFormed(bschema)
    /\ ValidateReturned => WellFormed(vschema)

\* C10: format_value returns "N/A" for None, NaN, +Inf and -Inf, whatever the
\* format type.
C10_SentinelForMissing ==
    (fmtOut # NoCall /\ MissingData(fmtValue)) => fmtOut = Ok("N/A")


\* C11: format_value and variance_color return a string and never raise,
\* whatever value of a payload and whatever format type they are given.
C11_FormattersTotal ==
    /\ fmtOut # NoCall => fmtOut.ok
    /\ colorOut # NoCall => colorOut.out.ok

\* the magnitude of a finite number, in tenths
Magnitude(v) == Abs(Tenths(v))

\* format_value was called on a finite number with the currency format
CurrencyCall == fmtOut # NoCall /\ fmtType = "currency" /\ IsFinite(fmtValue)

\* the text has exactly one decimal before its one-letter suffix
OneDecimal(text) ==
    /\ Len(text) >= 4
    /\ SubSeq(text, Len(text) - 2, Len(text) - 2) = "."
    /\ SubSeq(text, Len(text) - 1, Len(text) - 1) \in
           {"0", "1", "2", "3", "4", "5", "6", "7", "8", "9"}

\* the tiers of the currency format when the k tier ends at limit (a magnitude
\* in tenths): below 1,000 sign, "$" and the grouped integer; from 1,000 up to
\* the limit the suffix "k" with at most one decimal and no trailing ".0"; from
\* the limit on the suffix "m" with exactly one decimal
CurrencyTiers(limit) ==
    LET m == Magnitude(fmtValue)
        sign == IF Tenths(fmtValue) < 0 THEN "-" ELSE ""
        text == fmtOut.s
    IN  /\ fmtOut.ok
        /\ SubSeq(text, 1, Len(sign) + 1) = sign \o "$"
        /\ m < 10000 =>
               text = sign \o "$" \o Grouped(RoundDiv(m, 10))
        /\ (10000 <= m /\ m < limit) =>
               /\ EndsWith(text, "k")
               /\ ~EndsWith(text, ".0k")
               /\ ~InStr(",", text)
        /\ EndsWith(text, "m") <=> m >= limit
        /\ m >= limit => OneDecimal(text)

C13_VarianceColorBySign ==
    (colorOut # NoCall /\ (fmtValue.t = "none" \/ IsNumber(fmtValue))) =>
        LET c == colorOut.colors
            above == ~NoneOrNaN(fmtValue) /\ fmtValue.n > 0
            below == ~NoneOrNaN(fmtValue) /\ fmtValue.n < 0
        IN  /\ colorOut.out.ok
            /\ colorOut.out.s = c[1] <=> above
            /\ colorOut.out.s = c[2] <=> below
            /\ colorOut.out.s = c[3] <=> (~above /\ ~below)

\* variance_color called on zero with colours other than its defaults
C13_Witness ==
    /\ colorOut # NoCall
    /\ fmtValue \in {PyFloat(0), PyInt(0)}
    /\ colorOut.out = Ok(colorOut.colors[3])
    /\ colorOut.colors[3] # "#000000"


\* Every renderer adds exactly one shape for its slot, so the j-th shape of the
\* i-th built slide is the shape of the j-th slot of the i-th template slide.
BuiltShapes(i) == built.bytes.prs.slides[i].shapes

\* the value a table slot's row-data key has in the payload of the build
SlotRows(slot) ==
    IF slot.row_data_key # "" THEN dict_get(bpayload, slot.row_data_key) ELSE None

\* the table slots with declared columns, as <<slide, slot>> positions
TableSlots ==
    UNION {{<<i, j>> : j \in {k \in 1..Len(bschema.slides[i].slots) :
                                /\ bschema.slides[i].slots[k].slot_type = "table"
                                /\ bschema.slides[i].slots[k].columns # <<>>}}
           : i \in 1..Len(bschema.slides)}

\* C14: in a built presentation, a table slot with columns whose row data is
\* a list of k >= 1 rows has a table shape of exactly k + 1 rows and
\* len(columns) columns.
C14_TableRowCount ==
    built.ok =>
        \A at \in TableSlots :
            LET slot == bschema.slides[at[1]].slots[at[2]]
                rows == SlotRows(slot)
            IN  (rows.t = "list" /\ Len(rows.l) >= 1) =>
                    /\ Len(BuiltShapes(at[1])) = Len(bschema.slides[at[1]].slots)
                    /\ LET shape == BuiltShapes(at[1])[at[2]]
                       IN  /\ shape.kind = "table"
                           /\ Len(shape.cells) = Len(rows.l) + 1
                           /\ shape.ncols = Len(slot.columns)
                           /\ \A r \in 1..Len(shape.cells) :
                                  Len(shape.cells[r]) = Len(slot.columns)

\* a table built from the longest row list
C14_Witness ==
    /\ built.ok
    /\ <<1, 1>> \in TableSlots
    /\ SlotRows(bschema.slides[1].slots[1]).t = "list"
    /\ Len(SlotRows(bschema.slides[1].slots[1]).l) = MaxRows
    /\ BuiltShapes(1)[1].kind = "table"
    /\ Len(BuiltShapes(1)[1].cells) = MaxRows + 1

\* the row-data key of the slot is absent from the payload or holds the empty list
NoRows(slot) ==
    \/ slot.row_data_key \notin DOMAIN bpayload
    \/ SlotRows(slot) = PyList(<<>>)

\* C15: in a built presentation, a table slot whose row-data key is absent
\* or holds the empty list has a text box in its place and no table shape, and
\* no table of the slide is without data rows.
C15_NoRowsNoTable ==
    built.ok =>
        \A at \in TableSlots :
            LET slot == bschema.slides[at[1]].slots[at[2]]
                shapes == BuiltShapes(at[1])
            IN  /\ NoRows(slot) =>
                    /\ Len(shapes) = Len(bschema.slides[at[1]].slots)
                    /\ shapes[at[2]].kind = "textbox"
                /\ \A k \in 1..Len(shapes) :
                       shapes[k].kind = "table" => Len(shapes[k].cells) >= 2

\* a slide of two table slots, one without its row-data key and one with the
\* empty list, built into two text boxes
C15_Witness ==
    /\ built.ok
    /\ {<<1, 1>>, <<1, 2>>} \subseteq TableSlots
    /\ bschema.slides[1].slots[1].row_data_key \notin DOMAIN bpayload
    /\ SlotRows(bschema.slides[1].slots[2]) = PyList(<<>>)
    /\ BuiltShapes(1)[1].kind = "textbox"
    /\ BuiltShapes(1)[2].kind = "textbox"


\* the chart slots of the built template, as <<slide, slot>> positions
ChartSlots ==
    UNION {{<<i, j>> : j \in {k \in 1..Len(bschema.slides[i].slots) :
                                bschema.slides[i].slots[k].slot_type = "chart"}}
           : i \in 1..Len(bschema.slides)}

\* add_chart of charts.py adds nothing for the slot and returns False
NoData(slot) == add_chart(slot, bpayload) = [ok |-> TRUE, added |-> FALSE, shapes |-> <<>>]

\* C16: in a built presentation, a chart slot for which add_chart reports no
\* data has the placeholder text box in its place and no chart shape.
C16_NoDataNoChart ==
    built.ok =>
        \A at \in ChartSlots :
            LET slot == bschema.slides[at[1]].slots[at[2]]
            IN  NoData(slot) =>
                    <<BuiltShapes(at[1])[at[2]]>> = _render_placeholder(slot, bpayload).shapes

\* the chart slot is a category chart with series whose categories are a
\* non-empty list in the payload of the build
CategoryChartWithCategories(slot) ==
    /\ slot.chart_type \in {"column_clustered", "line"}
    /\ slot.series # <<>>
    /\ slot.categories_key # ""
    /\ dict_get(bpayload, slot.categories_key).t = "list"
    /\ dict_get(bpayload, slot.categories_key).l # <<>>

\* C17: in a built presentation, the chart of a category chart slot with m
\* categories has one series per declared series, each of exactly m values: a
\* shorter list is followed by zeros, a longer one is cut to its first m
\* values, and an absent series is m zeros.
C17_SeriesPaddedToCategories ==
    built.ok =>
        \A at \in ChartSlots :
            LET slot == bschema.slides[at[1]].slots[at[2]]
                shape == BuiltShapes(at[1])[at[2]]
                m == Len(dict_get(bpayload, slot.categories_key).l)
            IN  CategoryChartWithCategories(slot) =>
                    /\ shape.kind = "chart"
                    /\ Len(shape.series) = Len(slot.series)
                    /\ \A k \in 1..Len(slot.series) :
                           LET given == dict_get(bpayload, slot.series[k].data_key)
                               values == shape.series[k].values
                           IN  /\ Len(values) = m
                               /\ \A i \in 1..m :
                                      IF given.t = "list" /\ i <= Len(given.l)
                                      THEN Tenths(values[i]) = Tenths(given.l[i])
                                      ELSE Tenths(values[i]) = 0

\* C18: in a built presentation, the legend of a chart is hidden for a
\* doughnut and for a category chart of one declared series, and shown at the
\* bottom for a category chart of two or more declared series.
C18_LegendBySeriesCount ==
    built.ok =>
        \A at \in ChartSlots :
            LET slot == bschema.slides[at[1]].slots[at[2]]
                shape == BuiltShapes(at[1])[at[2]]
            IN  shape.kind = "chart" =>
                    /\ shape.has_legend <=>
                           (~_is_doughnut(slot.chart_type) /\ Len(slot.series) >= 2)
                    /\ shape.has_legend => shape.legend_position = "bottom"

\* the slot kinds each kind-specific routine is written for
RoutineKinds ==
    [add_chart |-> {"chart"}, _render_chart |-> {"chart"},
     _render_kpi |-> {"kpi_value"}, _render_table |-> {"table"},
     _render_text |-> {"text", "static"},
     _render_section_divider |-> {"section_divider"}]

\* C19: a kind-specific render routine called on a slot of another declared
\* kind raises.
C19_WrongKindFails ==
    (/\ rendered # NoCall
     /\ rendered.routine \in DOMAIN RoutineKinds
     /\ rendered.slot.slot_type \notin RoutineKinds[rendered.routine])
        => ~rendered.out.ok


QAFailed == generated # NoCall /\ generated.qa # NoCall /\ generated.qa.ok
            /\ ~passed(generated.qa.issues)

\* the generate command ran QA and the report has no error
QAPassed == generated # NoCall /\ generated.qa # NoCall /\ generated.qa.ok
            /\ passed(generated.qa.issues)

\* C21: the generate command writes the output file only when QA passed, QA
\* was skipped with --skip-qa, or --force was given; when QA fails without
\* --force the command exits with a non-zero status and the output file is
\* as it was before the command
C21_WriteOnlyAfterQA ==
    generated # NoCall =>
        /\ generated.written =>
               QAPassed \/ generated.skip_qa \/ generated.force
        /\ ~generated.written => generated.file = generated.before
        /\ (QAFailed /\ ~generated.force) =>
               /\ generated.status # 0
               /\ ~generated.written
               /\ generated.file = generated.before

\* QA failed without --force while an output file of an earlier command existed
C21_Witness ==
    /\ QAFailed
    /\ ~generated.force
    /\ ~generated.skip_qa
    /\ generated.before # NoBytes
    /\ generated.status = 1
    /\ generated.file = generated.before

\* the template slides whose index is the position pos of the presentation
SlidesWithIndex(pos) ==
    {i \in 1..Len(bschema.slides) : bschema.slides[i].index = pos}

\* C22: a built presentation has at each position pos the rendering of the
\* template slide whose index is pos, the slide validate looks up by that index
C22_SlidesInIndexOrder ==
    built.ok =>
        \A pos \in 0..(Len(built.bytes.prs.slides) - 1) :
            /\ SlidesWithIndex(pos) # {}
            /\ \A i \in SlidesWithIndex(pos) :
                   built.bytes.prs.slides[pos + 1]
                       = _build_slide(bschema.design, bschema.slides[i],
                                      bpayload).slide

\* validate was called on the built presentation with the builder's schema
ValidatedBuilt ==
    /\ result # NoCall
    /\ built.ok
    /\ vbytes = built.bytes
    /\ vschema = bschema

\* the errors validate_payload reports for the table and chart slots: row data
\* or a series that is no list, a series of another length than the categories
PayloadTypeErrors(schema, payload) ==
    UNION {UNION {IF schema.slides[i].slots[j].slot_type \in {"table", "chart"}
                     /\ _check_slot_payload(schema.slides[i].slots[j],
                                            schema.slides[i], payload).ok
                  THEN IssueSet(errors(_check_slot_payload(
                           schema.slides[i].slots[j], schema.slides[i],
                           payload).issues))
                  ELSE {}
                  : j \in 1..Len(schema.slides[i].slots)}
           : i \in 1..Len(schema.slides)}

\* C23: validate on a built presentation returns a report that has, for every
\* payload type error validate_payload reports for a table or chart slot, an
\* error for the same slot
C23_ValidateChecksPayloadTypes ==
    ValidatedBuilt =>
        \A i \in PayloadTypeErrors(vschema, vpayload) :
            /\ result.ok
            /\ \E e \in IssueSet(result.issues) :
                   /\ e.severity = "error"
                   /\ e.slide_index = i.slide_index
                   /\ e.slot_name = i.slot_name

\* the number of series the chart of a slot is expected to have: the declared
\* series with non-empty data in the payload, or all of them when none has data
ExpectedSeries(slot, payload) ==
    LET with_data == {k \in 1..Len(slot.series) :
                        /\ ~_is_missing(dict_get(payload, slot.series[k].data_key))
                        /\ Truthy(dict_get(payload, slot.series[k].data_key))}
    IN  IF with_data = {} THEN Len(slot.series) ELSE Cardinality(with_data)

\* the chart shape matched to a category-chart slot has another number of
\* series than expected
SeriesCountMismatch(slide, slot, payload) ==
    /\ slot.slot_type = "chart"
    /\ slot.chart_type # ""
    /\ ~IsDoughnutType(slot.chart_type)
    /\ slot.series # <<>>
    /\ _chart_shapes(slide) # <<>>
    /\ Len(MatchChart(_chart_shapes(slide), slot).series)
           # ExpectedSeries(slot, payload)

\* the <<slide, slot>> positions of the validated template whose chart has a
\* series count mismatch in the validated presentation
MismatchedCharts ==
    UNION {{<<i, j>> : j \in {k \in 1..Len(vschema.slides[i].slots) :
                LET at == SlideAt(Presentation(vbytes).prs, vschema.slides[i].index)
                IN  at.ok /\ SeriesCountMismatch(at.slide, vschema.slides[i].slots[k],
                                                 vpayload)}}
           : i \in 1..Len(vschema.slides)}

\* C24: when validate returns a report on a presentation in which the chart
\* matched to a category-chart slot has another number of series than expected,
\* the report has an error and does not pass
C24_SeriesCountMismatchIsError ==
    (/\ ValidateReturned
     /\ PerSlideChecks(vschema, Presentation(vbytes).prs)
     /\ MismatchedCharts # {})
        => ~passed(result.issues)

\* the value a series of the rendered slot resolves to in the payload
Resolved(k) == dict_get(rendered.payload, rendered.slot.series[k].data_key)

\* a resolved value that is absent, or is zero once None, NaN, an infinity and
\* a value that is no number are taken as 0
AbsentOrZero(v) ==
    \/ v.t \in {"none", "nan", "inf", "str", "list", "dict"}
    \/ v.t \in {"int", "float"} /\ v.n = 0

DoughnutCall == rendered # NoCall /\ rendered.routine = "_build_doughnut_chart_data"

\* C25: _build_doughnut_chart_data returns None exactly when the slot declares
\* no series or every resolved value is absent or zero after sanitizing; else
\* it returns chart data with the series names as categories and one series
\* "Data" of the sanitized values
C25_DoughnutNoDataIffAllZero ==
    DoughnutCall =>
        /\ rendered.out.ok
        /\ rendered.out.none <=>
               \/ rendered.slot.series = <<>>
               \/ \A k \in 1..Len(rendered.slot.series) : AbsentOrZero(Resolved(k))
        /\ ~rendered.out.none =>
               /\ Len(rendered.out.categories) = Len(rendered.slot.series)
               /\ Len(rendered.out.series) = 1
               /\ rendered.out.series[1].name = "Data"
               /\ \A k \in 1..Len(rendered.slot.series) :
                      /\ rendered.out.categories[k] = rendered.slot.series[k].name
                      /\ rendered.out.series[1].values[k] =
                             IF AbsentOrZero(Resolved(k)) THEN PyFloat(0)
                             ELSE PyFloat(Tenths(Resolved(k)))

\* chart data returned for two series of which one is sanitized to 0 and the
\* other is not zero
C25_Witness ==
    /\ DoughnutCall
    /\ Len(rendered.slot.series) = 2
    /\ Resolved(1).t = "int" /\ Resolved(1).n # 0
    /\ Resolved(2).t \in {"nan", "inf", "str"}
    /\ ~rendered.out.none

\* validate returned a report after running the per-slide checks
SlidesChecked ==
    /\ ValidateReturned
    /\ PerSlideChecks(vschema, Presentation(vbytes).prs)

\* the KPI slots of the validated template whose value is absent, None or NaN
\* in the validated payload, as <<slide, slot>> positions
MissingKpiSlots ==
    UNION {{<<i, j>> : j \in {k \in 1..Len(vschema.slides[i].slots) :
                /\ vschema.slides[i].slots[k].slot_type = "kpi_value"
                /\ dict_get(vpayload, vschema.slides[i].slots[k].data_key).t
                       \in {"none", "nan"}}}
           : i \in 1..Len(vschema.slides)}

\* the issues of the report for the slot at a position
IssuesOfSlot(p) ==
    SelectSeq(result.issues,
              LAMBDA e : /\ e.slide_index = vschema.slides[p[1]].index
                         /\ e.slot_name = vschema.slides[p[1]].slots[p[2]].name)

\* the text of the slide validate looks the slot of a position up on
TextOfSlide(p) ==
    _all_text_on_slide(SlideAt(Presentation(vbytes).prs,
                               vschema.slides[p[1]].index).slide)

\* C26: for a KPI slot whose payload value is absent or NaN the report of
\* validate has no issue for the slot when "N/A" is in the slide's text, and
\* exactly one, a kpi_missing_na warning, when it is not
C26_MissingKpiOnlyWarnsNA ==
    SlidesChecked =>
        \A p \in MissingKpiSlots :
            IF InStr("N/A", TextOfSlide(p)) THEN IssuesOfSlot(p) = <<>>
            ELSE /\ Len(IssuesOfSlot(p)) = 1
                 /\ IssuesOfSlot(p)[1].severity = "warning"
                 /\ IssuesOfSlot(p)[1].category = "kpi_missing_na"

\* a missing KPI value on a slide without "N/A", where the slot has a label and
\* a variance key with a value
C26_Witness ==
    /\ SlidesChecked
    /\ \E p \in MissingKpiSlots :
           /\ ~InStr("N/A", TextOfSlide(p))
           /\ vschema.slides[p[1]].slots[p[2]].variance_key # ""
           /\ vschema.slides[p[1]].slots[p[2]].variance_key \in DOMAIN vpayload
           /\ Len(IssuesOfSlot(p)) = 1

\* the section divider slots of the built template, as <<slide, slot>> positions
DividerSlots ==
    UNION {{<<i, j>> : j \in {k \in 1..Len(bschema.slides[i].slots) :
                bschema.slides[i].slots[k].slot_type = "section_divider"}}
           : i \in 1..Len(bschema.slides)}

\* the text a section divider slot shows: the payload value, or the slot's name
\* when the value is absent, None or NaN
DividerText(slot) ==
    IF dict_get(bpayload, slot.data_key).t \in {"none", "nan"} THEN slot.name
    ELSE str(dict_get(bpayload, slot.data_key))

\* C27: in a built presentation the slide of a section_divider slot has the
\* design system's divider colour as its background, whatever the slide's
\* kind, and the slot's text box shows the payload value, or the slot's name
\* when the value is absent
C27_DividerSlotFillsBackground ==
    built.ok =>
        \A p \in DividerSlots :
            /\ built.bytes.prs.slides[p[1]].background
                   = _hex_to_rgb(bschema.design.divider_bg)
            /\ BuiltShapes(p[1])[p[2]].kind = "textbox"
            /\ TextFrameText(BuiltShapes(p[1])[p[2]])
                   = DividerText(bschema.slides[p[1]].slots[p[2]])

\* two slide schemas that differ at most in their index
SameSlide(a, b) == [a EXCEPT !.index = 0] = [b EXCEPT !.index = 0]

KeysPut(sources) ==
    {Stages(sources)[i].key : i \in {h \in 1..Len(Stages(sources)) :
                                        Stages(sources)[h].op = "put"}}

WarningsOf(sources) ==
    {Stages(sources)[i].msg : i \in {h \in 1..Len(Stages(sources)) :
                                        Stages(sources)[h].op = "warn"}}

\* C29: two calls of map on one mapper with the same sources return the same
\* result (payload, warnings and coverage), and a result holds only keys and
\* warnings that the stages of its own call produced, each warning once
C29_MapStartsEmpty ==
    \A i, j \in 1..Len(mapper.calls) :
        /\ mapper.calls[i].sources = mapper.calls[j].sources
               => mapper.calls[i].out = mapper.calls[j].out
        /\ mapper.calls[i].out.ok =>
               /\ DOMAIN mapper.calls[i].out.payload
                      = KeysPut(mapper.calls[i].sources)
               /\ {mapper.calls[i].out.warnings[k] :
                       k \in 1..Len(mapper.calls[i].out.warnings)}
                      = WarningsOf(mapper.calls[i].sources)
               /\ Len(mapper.calls[i].out.warnings)
                      = Cardinality(WarningsOf(mapper.calls[i].sources))

\* the same sources mapped first and third, with a call on other sources that
\* put other keys and warnings in between
C29_Witness ==
    /\ Len(mapper.calls) = 3
    /\ mapper.calls[1].sources = mapper.calls[3].sources
    /\ mapper.calls[1].out.ok
    /\ mapper.calls[2].out.ok
    /\ mapper.calls[1].out.warnings # <<>>
    /\ ~(DOMAIN mapper.calls[2].out.payload \subseteq DOMAIN mapper.calls[1].out.payload)
    /\ mapper.calls[2].out.warnings # mapper.calls[1].out.warnings
    /\ mapper.calls[3].out = mapper.calls[1].out

\* a slide of the built template has two table slots of equal column count
\* whose row data in the payload are non-empty lists that differ
TwoTablesOnSlide ==
    \E p, q \in TableSlots :
        /\ p[1] = q[1]
        /\ p[2] # q[2]
        /\ Len(bschema.slides[p[1]].slots[p[2]].columns)
               = Len(bschema.slides[q[1]].slots[q[2]].columns)
        /\ SlotRows(bschema.slides[p[1]].slots[p[2]]).t = "list"
        /\ SlotRows(bschema.slides[q[1]].slots[q[2]]).t = "list"
        /\ SlotRows(bschema.slides[p[1]].slots[p[2]]).l # <<>>
        /\ SlotRows(bschema.slides[q[1]].slots[q[2]]).l # <<>>
        /\ SlotRows(bschema.slides[p[1]].slots[p[2]])
               # SlotRows(bschema.slides[q[1]].slots[q[2]])

\* C30: validate on the presentation built from a template with two table
\* slots of equal column count on one slide, with the payload of the build,
\* reports no table_row_count, table_header, table_cell_format or
\* table_variance_color error: each slot is checked against its own table
C30_TablesCheckedAgainstOwnShape ==
    (RoundTrip /\ result.ok /\ TwoTablesOnSlide) =>
        \A e \in IssueSet(result.issues) :
            ~(/\ e.severity = "error"
              /\ e.category \in {"table_row_count", "table_header",
                                 "table_cell_format", "table_variance_color"})

===========================================================================
